---- MODULE Spec2Model ----
(***************************************************************************)
(* Model of the frequency-band occupancy histograms of                     *)
(* src/src/mydarn/histogram.py:                                            *)
(*   Histogram.plot_freq_scan_hist     (1D, lines 849-1053)                *)
(*   Histogram.plot_freq_scan_2d_hist  (2D, lines 1056-1395)               *)
(* One call is one behaviour: Init fixes the arguments, every action is    *)
(* one section of the function body (a per-record loop advances by one     *)
(* record per step), and the call ends with pc = "done" (ordered_bands is  *)
(* returned) or with err # "none" (err names the exception, pc the section *)
(* that raised it and, in a loop, i the record).                           *)
(*                                                                         *)
(* Encodings.                                                              *)
(*  - Python indices are 0-based, TLA+ sequences 1-based: a value that the *)
(*    code exposes as an index ('Band') is stored 0-based.                 *)
(*  - tfreq is [k |-> "num" | "nan" | "inf", v |-> Int].                   *)
(*  - a record without 'gflg' has has_gflg = FALSE.                        *)
(*  - a datetime is <<year, month, day, hour>>; the unbound local `date`   *)
(*    is <<>>.                                                             *)
(*  - boundary is [elt, lo, hi] with elt = "None" for None; omit_bands is  *)
(*    [kind, ids] with kind = "None" for None.                             *)
(*  - a band table entry is [key, vtype, elt, value]: vtype is the Python  *)
(*    type of the value ("list", "tuple"), elt the type of its elements    *)
(*    ("num", "str"), value the elements (for "str" elements their rank in *)
(*    string order, which is all that str < str reads).                    *)
(*  - for Filter.filter_fitacf_gates (src/src/mydarn/filter.py, 41-83)      *)
(*    a FITACF record is a function from its keys to fields [type, value]: *)
(*    type is the Python type ("list", "ndarray", "str", "int"), value the *)
(*    elements (characters as code points) or, for "int", the number.      *)
(*  - floats are exact rationals: a normalized cell is hist2d[r][c] over   *)
(*    col_den[c] (1D: hist[r] over hist_den); NaN cells are nodata[r][c].  *)
(*  - for Histogram.plot_vector_hist (lines 36-364, VectorSpec) a record   *)
(*    has has_param / has_gflg and the arrays param and gflg; beam_num and *)
(*    gate_num are [k |-> "all" | "num", v |-> Int].                       *)
(***************************************************************************)
EXTENDS Integers, Sequences, FiniteSets, TLC

VARIABLES fn, data, freq_bands, date_bin, normalize, boundary, omit_bands,
          pc, err, rendered, keys, bands, remove_bands, i, dates, date,
          hist, hist2d, ordered_bands, hist_den, col_den, nodata,
          gate_min, gate_max, filtered_data,
          groundscatter, beam_num, gate_num, vals, vals_gs

vars == <<fn, data, freq_bands, date_bin, normalize, boundary, omit_bands,
          pc, err, rendered, keys, bands, remove_bands, i, dates, date,
          hist, hist2d, ordered_bands, hist_den, col_den, nodata,
          gate_min, gate_max, filtered_data,
          groundscatter, beam_num, gate_num, vals, vals_gs>>

inputs == <<fn, data, freq_bands, date_bin, normalize>>

\* The arguments and the result of Filter.filter_fitacf_gates, which the
\* histogram functions neither read nor write.
gates == <<gate_min, gate_max, filtered_data>>

\* The arguments and the value lists of Histogram.plot_vector_hist, which
\* the other functions neither read nor write.
vector == <<groundscatter, beam_num, gate_num, vals, vals_gs>>

(* ------------------------------ bounds --------------------------------- *)

\* Longest record list handed to a call.
MaxRecs == 2

\* Longest FITACF record list handed to filter_fitacf_gates.
MaxFitRecs == 2

\* Longest record list handed to plot_vector_hist.
MaxVecRecs == 2

(* ----------------------------- constants ------------------------------- *)

\* "Only use data from channel 2".
ChannelB == 2

(* ------------------------------ helpers -------------------------------- *)

Range(s) == {s[n] : n \in 1..Len(s)}

RECURSIVE SumSeq(_)
SumSeq(s) == IF s = <<>> THEN 0 ELSE s[1] + SumSeq(Tail(s))

SeqsUpTo(S, n) == UNION {[1..m -> S] : m \in 0..n}

Zeros(n) == [k \in 1..n |-> 0]

\* str(band) of an int of omit_bands.
StrOfInt(n) ==
    CASE n = 0 -> "0" [] n = 1 -> "1" [] n = 2 -> "2" [] n = 3 -> "3"
      [] n = 4 -> "4" [] n = 5 -> "5" [] n = 6 -> "6" [] n = 7 -> "7"
      [] n = 8 -> "8" [] n = 9 -> "9" [] OTHER -> "many"

\* int(key) of a band-table key: -1 stands for the ValueError of a key that
\* is no integer literal.
IntOfStr(s) ==
    CASE s = "0" -> 0 [] s = "1" -> 1 [] s = "2" -> 2 [] s = "3" -> 3
      [] s = "4" -> 4 [] s = "5" -> 5 [] s = "6" -> 6 [] s = "7" -> 7
      [] s = "8" -> 8 [] s = "9" -> 9 [] OTHER -> -1

(* --------------------------- input domains ----------------------------- *)

Num(v) == [k |-> "num", v |-> v]
NaN == [k |-> "nan", v |-> 0]
Inf == [k |-> "inf", v |-> 0]

Rec(ch, f, hasg, g, t) ==
    [channel |-> ch, tfreq |-> f, has_gflg |-> hasg, gflg |-> g,
     time_yr |-> t[1], time_mo |-> t[2], time_dy |-> t[3], time_hr |-> t[4]]

Band(key, lo, hi) ==
    [key |-> key, vtype |-> "list", elt |-> "num", value |-> <<lo, hi>>]

\* Three contiguous bands sharing their endpoints.
T3 == [isdict |-> TRUE,
       items |-> <<Band("0", 0, 2), Band("1", 2, 4), Band("2", 4, 6)>>]
\* A band nested in another.
TNested == [isdict |-> TRUE, items |-> <<Band("0", 0, 6), Band("1", 1, 3)>>]
\* Two overlapping bands.
TOverlap == [isdict |-> TRUE, items |-> <<Band("0", 0, 4), Band("1", 2, 6)>>]
\* Malformed or unusual tables.
TNotDict == [isdict |-> FALSE, items |-> <<Band("0", 0, 2), Band("1", 2, 4)>>]
TLen3 == [isdict |-> TRUE,
          items |-> <<Band("0", 0, 2),
                      [key |-> "1", vtype |-> "list", elt |-> "num",
                       value |-> <<2, 4, 6>>]>>]
TTuple == [isdict |-> TRUE,
           items |-> <<Band("0", 0, 2),
                       [key |-> "1", vtype |-> "tuple", elt |-> "num",
                        value |-> <<2, 4>>]>>]
TStr == [isdict |-> TRUE,
         items |-> <<[key |-> "0", vtype |-> "list", elt |-> "str",
                      value |-> <<1, 2>>]>>]
TKeyA == [isdict |-> TRUE, items |-> <<Band("A", 0, 2), Band("B", 2, 4)>>]

\* The two bands of the end-to-end scenario, in kHz.
TE2E == [isdict |-> TRUE,
         items |-> <<Band("0", 8000, 10000), Band("1", 10000, 12000)>>]

ValidTables == {T3, TNested, TOverlap}
OddTables == {TNotDict, TLen3, TTuple, TStr, TKeyA}

DateBins == {"year", "month", "day", "hour", "week"}

\* Timestamps <<yr, mo, dy, hr>> that tell the buckets of a date_bin apart.
Times(db) ==
    CASE db = "hour" -> {<<2020, 1, 1, 13>>, <<2020, 1, 1, 14>>, <<2020, 1, 1, 16>>}
      [] db = "day" -> {<<2020, 1, 1, 14>>, <<2020, 1, 2, 14>>, <<2020, 2, 1, 14>>,
                        <<2021, 1, 1, 14>>}
      [] db = "month" -> {<<2020, 1, 1, 14>>, <<2021, 1, 1, 14>>, <<2020, 2, 1, 14>>}
      [] db = "year" -> {<<2020, 1, 1, 14>>, <<2021, 1, 1, 14>>, <<2020, 2, 1, 14>>}
      [] OTHER -> {<<2020, 1, 1, 14>>}

\* The records of a call with date_bin db: channel-2 records in each band of
\* T3 with one or two ionospheric points, at the timestamps of db, a record
\* without gflg, a record with a NaN tfreq, and records of another channel.
SomeTime(db) == CHOOSE t \in Times(db) : \A u \in Times(db) : t[4] >= u[4]
Records(db) ==
    {Rec(ChannelB, Num(1), TRUE, <<0>>, t) : t \in Times(db)}
    \cup {Rec(ChannelB, Num(3), TRUE, <<0, 0, 1>>, t) : t \in Times(db)}
    \cup {Rec(ChannelB, Num(5), TRUE, <<0>>, SomeTime(db)),
          Rec(ChannelB, Num(3), FALSE, <<>>, SomeTime(db)),
          Rec(ChannelB, NaN, TRUE, <<0>>, SomeTime(db))}
    \cup {Rec(1, Num(3), TRUE, <<0, 0>>, t) : t \in Times(db)}

\* The few records used with the malformed tables.
FewRecords == {Rec(ChannelB, Num(3), TRUE, <<0>>, <<2020, 1, 1, 14>>),
               Rec(1, Num(3), TRUE, <<0>>, <<2020, 1, 1, 14>>)}

\* Records transmitted at the edges of the bands of T3 and TOverlap: at the
\* two ends of the default boundary and at the endpoints that bands share.
EdgeRecords ==
    {Rec(ChannelB, Num(v), TRUE, <<0>>, <<2020, 1, 1, 14>>) : v \in {0, 2, 4, 6}}

\* The end-to-end scenario: four channel-2 records at 9000, 9000, 11000 and
\* 11000 kHz with two ionospheric points each.
E2ERec(v) == Rec(ChannelB, Num(v), TRUE, <<0, 0>>, <<2020, 1, 1, 14>>)
E2E == <<E2ERec(9000), E2ERec(9000), E2ERec(11000), E2ERec(11000)>>
\* A record at the endpoint the two bands share, then one in the second band.
E2EShared == <<E2ERec(10000), E2ERec(11000)>>
\* Three points in the first band and one in the second on one day, and a
\* record without a finite tfreq on another day.
TwoColumns ==
    <<Rec(ChannelB, Num(9000), TRUE, <<0, 0, 0>>, <<2020, 1, 1, 14>>),
      Rec(ChannelB, Num(11000), TRUE, <<0>>, <<2020, 1, 1, 14>>),
      Rec(ChannelB, NaN, TRUE, <<0>>, <<2020, 1, 2, 14>>)>>

NoOmit == [kind |-> "None", ids |-> <<>>]
OmitInt(n) == [kind |-> "int", ids |-> <<n>>]
OmitList(s) == [kind |-> "list", ids |-> s]

NoBoundary == [elt |-> "None", lo |-> 0, hi |-> 0]
Bnd(lo, hi) == [elt |-> "num", lo |-> lo, hi |-> hi]

(* ----------------------- Check Frequency Bands ------------------------- *)

\* Mutant of CheckFrequencyBands: the len(band) != 2 test is missing.
CheckWithoutLength(fb) ==
    IF ~fb.isdict THEN "TypeError"
    ELSE IF \E n \in 1..Len(fb.items) : fb.items[n].vtype # "list"
         THEN "TypeError"
         ELSE "none"

\* type(freq_bands) != dict, type(band) != list, len(band) != 2: the name of
\* the exception raised, "none" when the table passes.
CheckFrequencyBands(fb) ==
    IF ~fb.isdict THEN "TypeError"
    ELSE IF \E n \in 1..Len(fb.items) :
                \/ fb.items[n].vtype # "list"
                \/ Len(fb.items[n].value) # 2
         THEN "TypeError"
         ELSE "none"

(* -------------------------- Generate Boundary -------------------------- *)

\* Python's list order: a < b for two-element lists.
ListLess(a, b) == a[1] < b[1] \/ (a[1] = b[1] /\ a[2] < b[2])

\* min(freq_bands.values()) and max(freq_bands.values()): the least and the
\* greatest value in list order.
MinList(values) == CHOOSE a \in Range(values) : \A b \in Range(values) : ~ListLess(b, a)
MaxList(values) == CHOOSE a \in Range(values) : \A b \in Range(values) : ~ListLess(a, b)

MinElt(a) == IF a[2] < a[1] THEN a[2] ELSE a[1]
MaxElt(a) == IF a[2] > a[1] THEN a[2] ELSE a[1]

Values(fb) == [n \in 1..Len(fb.items) |-> fb.items[n].value]

\* boundary = (min(min(values)), max(max(values))) when boundary == None.
\* min() of no value is a ValueError; lists whose elements differ in type do
\* not compare (TypeError).
GenerateBoundary(fb, bnd) ==
    IF bnd.elt # "None" THEN [err |-> "none", boundary |-> bnd]
    ELSE IF fb.items = <<>> THEN [err |-> "ValueError", boundary |-> bnd]
    ELSE IF \E m, n \in 1..Len(fb.items) : fb.items[m].elt # fb.items[n].elt
         THEN [err |-> "TypeError", boundary |-> bnd]
         ELSE [err |-> "none",
               boundary |-> [elt |-> fb.items[1].elt,
                             lo |-> MinElt(MinList(Values(fb))),
                             hi |-> MaxElt(MaxList(Values(fb)))]]

(* ----------------------------- Gather Bands ---------------------------- *)

\* Mutant of KeepBand1D: a center equal to a boundary endpoint is kept.
KeepBand1DInclusive(value, bnd) ==
    ~(value[1] + value[2] < 2 * bnd.lo \/ value[1] + value[2] > 2 * bnd.hi)

\* 1D: center = (value[0] + value[1]) / 2; the band is kept unless
\* center <= boundary[0] or center >= boundary[1] (compared doubled, which
\* keeps the halves exact). Adding and halving two str elements is a
\* TypeError, and so is comparing a number with a str.
KeepBand1D(value, bnd) ==
    ~(value[1] + value[2] <= 2 * bnd.lo \/ value[1] + value[2] >= 2 * bnd.hi)

\* Mutant of GatherBands1D: a kept band is put in front of the bands kept
\* before it, so the slots come in reverse table order.
RECURSIVE GatherBands1DReversed(_, _, _)
GatherBands1DReversed(items, bnd, acc) ==
    IF items = <<>> THEN acc
    ELSE LET it == Head(items) IN
         IF it.elt # "num" \/ bnd.elt # "num"
         THEN [acc EXCEPT !.err = "TypeError"]
         ELSE IF KeepBand1D(it.value, bnd)
              THEN GatherBands1DReversed(Tail(items), bnd,
                       [acc EXCEPT !.keys = <<it.key>> \o @,
                                   !.bands = <<it.value>> \o @])
              ELSE GatherBands1DReversed(Tail(items), bnd, acc)

RECURSIVE GatherBands1D(_, _, _)
GatherBands1D(items, bnd, acc) ==
    IF items = <<>> THEN acc
    ELSE LET it == Head(items) IN
         IF it.elt # "num" \/ bnd.elt # "num"
         THEN [acc EXCEPT !.err = "TypeError"]
         ELSE IF KeepBand1D(it.value, bnd)
              THEN GatherBands1D(Tail(items), bnd,
                       [acc EXCEPT !.keys = Append(@, it.key),
                                   !.bands = Append(@, it.value)])
              ELSE GatherBands1D(Tail(items), bnd, acc)

\* Mutant of KeepBand2D: a band that touches a boundary endpoint is skipped.
KeepBand2DStrict(value, bnd) == ~(value[1] <= bnd.lo \/ value[2] >= bnd.hi)

\* 2D: the band is skipped when value[0] < boundary[0] or
\* value[1] > boundary[1]; a kept band's key goes through int(key), a
\* ValueError when the key is no integer literal.
KeepBand2D(value, bnd) == ~(value[1] < bnd.lo \/ value[2] > bnd.hi)

RECURSIVE GatherBands2D(_, _, _)
GatherBands2D(items, bnd, acc) ==
    IF items = <<>> THEN acc
    ELSE LET it == Head(items) IN
         IF it.elt # bnd.elt
         THEN [acc EXCEPT !.err = "TypeError"]
         ELSE IF ~KeepBand2D(it.value, bnd)
              THEN GatherBands2D(Tail(items), bnd, acc)
              ELSE IF IntOfStr(it.key) = -1
                   THEN [acc EXCEPT !.err = "ValueError"]
                   ELSE GatherBands2D(Tail(items), bnd,
                            [acc EXCEPT !.keys = Append(@, IntOfStr(it.key)),
                                        !.bands = Append(@, it.value)])

NoBands == [err |-> "none", keys |-> <<>>, bands |-> <<>>]

GatherBands(f, fb, bnd) ==
    IF f = "1d" THEN GatherBands1D(fb.items, bnd, NoBands)
    ELSE GatherBands2D(fb.items, bnd, NoBands)

(* ----------------------------- Remove Bands ---------------------------- *)

HasKey(fb, k) == \E n \in 1..Len(fb.items) : fb.items[n].key = k
Lookup(fb, k) == fb.items[CHOOSE n \in 1..Len(fb.items) : fb.items[n].key = k].value

\* Mutant of RemoveBands: an identifier the table does not have is passed
\* over instead of raising.
RemoveKnownBands(fb, omit) ==
    [err |-> "none",
     remove_bands |->
        LET known == SelectSeq(omit.ids, LAMBDA id : HasKey(fb, StrOfInt(id)))
        IN  [n \in 1..Len(known) |-> Lookup(fb, StrOfInt(known[n]))]]

\* remove_bands = [freq_bands[str(band)] for band in omit_bands], a lone int
\* first wrapped in a list; any failure of the lookup is a TypeError. The
\* lookup reads the table as the caller gave it, and keys and bands are
\* left as Gather Bands built them.
RemoveBands(fb, omit) ==
    IF omit.kind = "None" THEN [err |-> "none", remove_bands |-> <<>>]
    ELSE IF \E n \in 1..Len(omit.ids) : ~HasKey(fb, StrOfInt(omit.ids[n]))
         THEN [err |-> "TypeError", remove_bands |-> <<>>]
         ELSE [err |-> "none",
               remove_bands |-> [n \in 1..Len(omit.ids) |->
                                    Lookup(fb, StrOfInt(omit.ids[n]))]]

\* Mutant of WrapInt: the identifiers are popped off the list omit_bands as
\* they are looked up.
PopIdentifiers(omit) ==
    IF omit.kind = "None" THEN omit ELSE [kind |-> "list", ids |-> <<>>]

\* if type(omit_bands) == int: omit_bands = [omit_bands]: the local name is
\* bound to a new one-element list; a list or None stays the object the
\* caller passed.
WrapInt(omit) ==
    IF omit.kind = "int" THEN [omit EXCEPT !.kind = "list"] ELSE omit

(* ----------------------------- Gather Dates ---------------------------- *)

\* Mutant of OnChannelB: the channel test is missing.
OnAnyChannel(rec) == TRUE

\* "Only use data from channel 2": data[i]['channel'] != 2 skips the record.
OnChannelB(rec) == rec.channel = ChannelB

\* Mutant of DateOf: 'month' keeps the year, datetime(yr, mo, 1).
DateOfMonthInYear(rec, db, prev) ==
    CASE db = "year" -> <<rec.time_yr, 1, 1, 0>>
      [] db = "month" -> <<rec.time_yr, rec.time_mo, 1, 0>>
      [] db = "day" -> <<rec.time_yr, rec.time_mo, rec.time_dy, 0>>
      [] db = "hour" -> IF rec.time_hr % 2 = 0
                        THEN <<1, 1, 1, rec.time_hr>>
                        ELSE prev
      [] OTHER -> prev

\* The datetime a record is filed under. For 'hour' the assignment is
\* guarded by the hour being even and has no else branch: at an odd hour the
\* local `date` keeps the value it had (prev), unbound included. "bad"
\* stands for a date_bin that no branch matches.
DateOf(rec, db, prev) ==
    CASE db = "year" -> <<rec.time_yr, 1, 1, 0>>
      [] db = "month" -> <<1, rec.time_mo, 1, 0>>
      [] db = "day" -> <<rec.time_yr, rec.time_mo, rec.time_dy, 0>>
      [] db = "hour" -> IF rec.time_hr % 2 = 0
                        THEN <<1, 1, 1, rec.time_hr>>
                        ELSE prev
      [] OTHER -> prev

KnownDateBin(db) == db \in {"year", "month", "day", "hour"}

\* Mutant of GatherDatesStep: a new date is put in front of the dates seen
\* before it.
GatherDatesStepInFront(rec, db, st) ==
    IF ~OnChannelB(rec) THEN st
    ELSE IF ~KnownDateBin(db) THEN [st EXCEPT !.err = "ValueError"]
    ELSE LET d == DateOf(rec, db, st.date) IN
         IF d = <<>> THEN [st EXCEPT !.err = "NameError"]
         ELSE [err |-> "none",
               dates |-> IF d \in Range(st.dates) THEN st.dates
                         ELSE <<d>> \o st.dates,
               date |-> d]

\* One pass of the first loop over record rec: st = [err, dates, date].
GatherDatesStep(rec, db, st) ==
    IF ~OnChannelB(rec) THEN st
    ELSE IF ~KnownDateBin(db) THEN [st EXCEPT !.err = "ValueError"]
    ELSE LET d == DateOf(rec, db, st.date) IN
         IF d = <<>> THEN [st EXCEPT !.err = "NameError"]
         ELSE [err |-> "none",
               dates |-> IF d \in Range(st.dates) THEN st.dates
                         ELSE Append(st.dates, d),
               date |-> d]

(* --------------------------- Generate Histogram ------------------------ *)

\* np.isnan(freq) or np.isinf(freq)
NanOrInf(freq) == freq.k # "num"

\* Mutant of OutOfRange: the boundary is closed, a tfreq equal to an endpoint
\* is in range.
OutsideClosedRange(freq, bnd) == freq.v < bnd.lo \/ freq.v > bnd.hi

\* freq <= boundary[0] or freq >= boundary[1]
OutOfRange(freq, bnd) == freq.v <= bnd.lo \/ freq.v >= bnd.hi

\* Mutant of InOmitted: the omitted intervals are open, a tfreq equal to an
\* endpoint is not in them.
InsideOmitted(freq, rem) ==
    \E n \in 1..Len(rem) : rem[n][1] < freq.v /\ freq.v < rem[n][2]

\* Mutant of InOmitted: the omitted bands test is missing.
NeverOmitted(freq, rem) == FALSE

\* any(band[0] <= freq <= band[1] for band in remove_bands)
InOmitted(freq, rem) ==
    \E n \in 1..Len(rem) : rem[n][1] <= freq.v /\ freq.v <= rem[n][2]

\* Mutant of CountIono: every scatter point is counted, ground scatter too.
CountAll(gflg) == Len(gflg)

\* num_pts: the positions j with data[i]['gflg'][j] == 0.
CountIono(gflg) == Cardinality({j \in 1..Len(gflg) : gflg[j] = 0})

\* Mutant of OwningBand: the search has no break, so the last band that
\* holds freq is the one credited.
LastOwningBand(bnds, freq) ==
    IF \E j \in 1..Len(bnds) : bnds[j][1] <= freq.v /\ freq.v <= bnds[j][2]
    THEN CHOOSE j \in 1..Len(bnds) :
            /\ bnds[j][1] <= freq.v /\ freq.v <= bnds[j][2]
            /\ \A m \in (j + 1)..Len(bnds) :
                  ~(bnds[m][1] <= freq.v /\ freq.v <= bnds[m][2])
    ELSE 0

\* The first band with bands[j][0] <= freq <= bands[j][1], 0 when there is
\* none (band_index == None; the 1D loop then adds nothing).
OwningBand(bnds, freq) ==
    IF \E j \in 1..Len(bnds) : bnds[j][1] <= freq.v /\ freq.v <= bnds[j][2]
    THEN CHOOSE j \in 1..Len(bnds) :
            /\ bnds[j][1] <= freq.v /\ freq.v <= bnds[j][2]
            /\ \A m \in 1..(j - 1) : ~(bnds[m][1] <= freq.v /\ freq.v <= bnds[m][2])
    ELSE 0

\* dates.index(date), 0 when date is not in dates (a ValueError).
IndexOf(dts, d) ==
    IF d \in Range(dts)
    THEN CHOOSE n \in 1..Len(dts) : dts[n] = d /\ \A m \in 1..(n - 1) : dts[m] # d
    ELSE 0

\* One pass of the second loop over record rec. st = [err, hist, hist2d,
\* date]; f, db, bnd, rem, bnds and dts are the function, date_bin, boundary,
\* remove_bands, bands and dates of the call. The filters run in the code's
\* order: channel, NaN/inf, boundary (a TypeError when the boundary holds
\* str), omitted bands, gflg (a missing gflg is the caught KeyError), owning
\* band, and in 2D the column of the record's date.
HistStep(f, rec, db, bnd, rem, bnds, dts, st) ==
    IF ~OnChannelB(rec) THEN st
    ELSE IF NanOrInf(rec.tfreq) THEN st
    ELSE IF bnd.elt # "num" THEN [st EXCEPT !.err = "TypeError"]
    ELSE IF OutOfRange(rec.tfreq, bnd) THEN st
    ELSE IF InOmitted(rec.tfreq, rem) THEN st
    ELSE IF ~rec.has_gflg THEN st
    ELSE LET num_pts == CountIono(rec.gflg)
             b == OwningBand(bnds, rec.tfreq)
         IN  IF b = 0 THEN st
             ELSE IF f = "1d"
                  THEN [st EXCEPT !.hist[b] = @ + num_pts]
                  ELSE LET d == DateOf(rec, db, st.date)
                           c == IndexOf(dts, d)
                       IN  IF d = <<>> THEN [st EXCEPT !.err = "NameError"]
                           ELSE IF c = 0
                                THEN [st EXCEPT !.err = "ValueError", !.date = d]
                                ELSE [st EXCEPT !.hist2d[b][c] = @ + num_pts,
                                                !.date = d]

(* ------------------------ Ordered Frequency Bands ---------------------- *)

\* band_sums = np.sum(hist2d, axis = 1)
BandSums(h2) == [r \in 1..Len(h2) |-> SumSeq(h2[r])]

Perms(n) == {p \in [1..n -> 1..n] : \A a, b \in 1..n : a # b => p[a] # p[b]}

\* np.argsort(h): an index order that sorts h ascending. The default kind
\* is not a stable sort, so equal values may come in any order.
Argsorts(h) ==
    {p \in Perms(Len(h)) : \A a \in 1..(Len(h) - 1) : h[p[a]] <= h[p[a + 1]]}

\* Mutant of Reversed: the [::-1] is missing.
NotReversed(p) == p

\* [::-1]
Reversed(p) == [a \in 1..Len(p) |-> p[Len(p) + 1 - a]]

\* Mutant of OrderedBands: 'Count' is int(i), the index, not int(h[i]).
OrderedBandsCountIsIndex(p, h, bnds) ==
    [a \in 1..Len(p) |->
        LET n == Reversed(p)[a] IN
        [Band |-> n - 1, FreqRange |-> bnds[n], Count |-> n - 1]]

\* Mutant of OrderedBands: the list is built from the normalized totals, so
\* 'Count' is int() of a fraction of the grand total.
OrderedBandsOfFractions(p, h, bnds) ==
    [a \in 1..Len(p) |->
        LET n == Reversed(p)[a] IN
        [Band |-> n - 1, FreqRange |-> bnds[n],
         Count |-> IF SumSeq(h) # 0 THEN h[n] \div SumSeq(h) ELSE h[n]]]

\* ordered_bands for the index order p (ascending) of the totals h:
\* 'Band' is int(i) of the index i in bands, 'Freq Range' is bands[i] and
\* 'Count' is int(h[i]).
OrderedBands(p, h, bnds) ==
    [a \in 1..Len(p) |->
        LET n == Reversed(p)[a] IN
        [Band |-> n - 1, FreqRange |-> bnds[n], Count |-> h[n]]]

\* The totals that are ranked: hist in 1D, the row sums of hist2d in 2D.
Totals(f, h, h2) == IF f = "1d" THEN h ELSE BandSums(h2)

(* ------------------------------ Normalize ------------------------------ *)

\* Mutant of HistDen: the bins are divided by the largest bin.
HistDenLargest(norm, h) ==
    IF norm /\ SumSeq(h) # 0
    THEN CHOOSE v \in Range(h) : \A w \in Range(h) : v >= w
    ELSE 1

\* 1D: hist = hist / np.sum(hist) if normalize and np.sum(hist) != 0: the
\* divisor of every bin.
HistDen(norm, h) == IF norm /\ SumSeq(h) # 0 THEN SumSeq(h) ELSE 1

ColumnSum(h2, c) == SumSeq([r \in 1..Len(h2) |-> h2[r][c]])

\* Mutant of ColDen: every column is divided by the sum of the whole matrix.
ColDenGlobal(norm, h2, ncols) ==
    [c \in 1..ncols |->
        IF norm /\ SumSeq(BandSums(h2)) > 0 THEN SumSeq(BandSums(h2)) ELSE 1]

\* 2D: every column with column_sum > 0 is divided by column_sum: the
\* divisor of each of the ncols columns.
ColDen(norm, h2, ncols) ==
    [c \in 1..ncols |->
        IF norm /\ ColumnSum(h2, c) > 0 THEN ColumnSum(h2, c) ELSE 1]

(* ------------------------------ Color Map ------------------------------ *)

\* Cell <<r, c>> is the rational h2[r][c] / den[c].
CellLess(h2, den, p, q) == h2[p[1]][p[2]] * den[q[2]] < h2[q[1]][q[2]] * den[p[2]]

\* A Color Map whose percentile is taken over every cell, zero ones included.
EveryCell(h2, ncols) == (1..Len(h2)) \X (1..ncols)

\* hist2d[hist2d > 0]
Positive(h2, ncols) == {p \in (1..Len(h2)) \X (1..ncols) : h2[p[1]][p[2]] > 0}

\* A cell holding the k-th smallest (k from 0) of the positive values.
KthCell(h2, den, P, k) ==
    CHOOSE p \in P :
        /\ Cardinality({q \in P : CellLess(h2, den, q, p)}) <= k
        /\ Cardinality({q \in P : ~CellLess(h2, den, p, q)}) > k

\* hist2d < np.percentile(nonzero_hist2d, 0.5) for cell x. The percentile
\* interpolates linearly between the sorted values at floor and ceiling of
\* 0.005 * (n - 1): with a and b those two values and g / 1000 the
\* fraction, the threshold is a + (g / 1000) * (b - a).
BelowThreshold(h2, den, ncols, x) ==
    LET P == Positive(h2, ncols)
        n == Cardinality(P)
        lo == (5 * (n - 1)) \div 1000
        g == (5 * (n - 1)) % 1000
        a == KthCell(h2, den, P, lo)
        b == IF g = 0 THEN a ELSE KthCell(h2, den, P, lo + 1)
        an == h2[a[1]][a[2]]
        ad == den[a[2]]
        bn == h2[b[1]][b[2]]
        bd == den[b[2]]
        xn == h2[x[1]][x[2]]
        xd == den[x[2]]
    IN  xn * 1000 * ad * bd < xd * (1000 * an * bd + g * (bn * ad - an * bd))

\* The cells set to np.nan: those below the threshold when some cell is
\* positive, else those equal to 0.0.
NoData(h2, den, ncols) ==
    [r \in 1..Len(h2) |->
        [c \in 1..ncols |->
            IF Positive(h2, ncols) # {}
            THEN BelowThreshold(h2, den, ncols, <<r, c>>)
            ELSE h2[r][c] = 0]]

(* ------------------------- the two loops as folds ---------------------- *)

\* The first loop over the records recs, from the loop state st: it stops at
\* the record that raises.
RECURSIVE GatherDatesAll(_, _, _)
GatherDatesAll(recs, db, st) ==
    IF recs = <<>> \/ st.err # "none" THEN st
    ELSE GatherDatesAll(Tail(recs), db, GatherDatesStep(Head(recs), db, st))

\* The second loop over the records recs, from the loop state st.
RECURSIVE HistAll(_, _, _, _, _, _, _, _)
HistAll(f, recs, db, bnd, rem, bnds, dts, st) ==
    IF recs = <<>> \/ st.err # "none" THEN st
    ELSE HistAll(f, Tail(recs), db, bnd, rem, bnds, dts,
                 HistStep(f, Head(recs), db, bnd, rem, bnds, dts, st))

\* Both loops of a call on the records recs, after Remove Bands: the dates
\* (2D), then the histogram from zeros. [err, dates, date, hist, hist2d].
Extraction(f, recs, db, bnd, rem, bnds) ==
    LET ds == IF f = "1d" THEN [err |-> "none", dates |-> <<>>, date |-> <<>>]
              ELSE GatherDatesAll(recs, db,
                       [err |-> "none", dates |-> <<>>, date |-> <<>>])
        h0 == [err |-> ds.err,
               hist |-> IF f = "1d" THEN Zeros(Len(bnds)) ELSE <<>>,
               hist2d |-> IF f = "1d" THEN <<>>
                          ELSE [r \in 1..Len(bnds) |-> Zeros(Len(ds.dates))],
               date |-> ds.date]
        hs == HistAll(f, recs, db, bnd, rem, bnds, ds.dates, h0)
    IN  [err |-> hs.err, dates |-> ds.dates, date |-> hs.date,
         hist |-> hs.hist, hist2d |-> hs.hist2d]

(* -------------------------------- calls -------------------------------- *)

\* A call: its arguments, the records its record lists are drawn from, and
\* the record lists it is made with as they stand (fixed).
Call(f, fb, db, norm, bnd, omit, recs) ==
    [fn |-> f, freq_bands |-> fb, date_bin |-> db, normalize |-> norm,
     boundary |-> bnd, omit_bands |-> omit, recs |-> recs, fixed |-> {}]

OnLists(call, lists) == [call EXCEPT !.fixed = lists]

\* omit_bands naming an identifier that T3 does not have, alone and after
\* one that it has.
UnknownOmits == {OmitInt(5), OmitList(<<0, 7>>)}

\* (boundary, omit_bands, normalize) as passed with the table T3: the
\* boundary (2, 6) drops the first band, (0, 1) drops every band.
Options ==
    {<<NoBoundary, NoOmit, TRUE>>, <<NoBoundary, NoOmit, FALSE>>,
     <<NoBoundary, OmitInt(2), TRUE>>, <<NoBoundary, OmitList(<<0, 1>>), TRUE>>,
     <<Bnd(2, 6), NoOmit, TRUE>>,
     <<Bnd(2, 6), OmitInt(2), TRUE>>, <<Bnd(0, 1), NoOmit, TRUE>>}

\* (boundary, omit_bands) for the records at the band edges: the middle
\* band omitted, and the first band omitted under a boundary that drops it.
EdgeOmits == {<<NoBoundary, OmitInt(1)>>, <<Bnd(1, 6), OmitInt(0)>>}

\* Boundaries that the overlapping bands [0, 4] and [2, 6] straddle: under
\* (1, 6) the first band starts outside with its center inside, under (0, 4)
\* the second band has its center on the high end.
StraddledBoundaries == {Bnd(1, 6), Bnd(0, 4)}

\* The calls of the model: both functions on T3 under every option (the 1D
\* function has no date_bin: "hour" only picks its records), the 2D function
\* under every date_bin, both functions on nested and overlapping bands, and
\* both functions on the malformed tables, on an omit_bands that names an
\* unknown band, on records at the band edges, and on the end-to-end
\* scenario and a two-column matrix.
Calls ==
    {Call(f, T3, "hour", o[3], o[1], o[2], Records("hour")) :
        f \in {"1d", "2d"}, o \in Options}
    \cup {Call("2d", T3, db, TRUE, NoBoundary, NoOmit, Records(db)) :
        db \in DateBins}
    \cup {Call(f, fb, "hour", TRUE, NoBoundary, NoOmit, Records("hour")) :
        f \in {"1d", "2d"}, fb \in ValidTables}
    \cup {Call(f, fb, "hour", TRUE, NoBoundary, NoOmit, FewRecords) :
        f \in {"1d", "2d"}, fb \in OddTables}
    \cup {Call("2d", fb, "week", TRUE, NoBoundary, NoOmit, FewRecords) :
        fb \in OddTables}
    \cup {Call(f, T3, "hour", TRUE, NoBoundary, o, FewRecords) :
        f \in {"1d", "2d"}, o \in UnknownOmits}
    \cup {Call(f, fb, "hour", TRUE, NoBoundary, NoOmit, EdgeRecords) :
        f \in {"1d", "2d"}, fb \in {T3, TOverlap}}
    \cup {Call(f, T3, "hour", TRUE, o[1], o[2], EdgeRecords) :
        f \in {"1d", "2d"}, o \in EdgeOmits}
    \cup {Call(f, TOverlap, "hour", TRUE, b, NoOmit, FewRecords) :
        f \in {"1d", "2d"}, b \in StraddledBoundaries}
    \cup {OnLists(Call(f, TE2E, "hour", norm, NoBoundary, NoOmit, {}),
                   {E2E, E2EShared}) :
        f \in {"1d", "2d"}, norm \in BOOLEAN}
    \cup {OnLists(Call("2d", TE2E, "day", norm, NoBoundary, NoOmit, {}),
                   {TwoColumns}) :
        norm \in BOOLEAN}

\* The record lists of a call.
DataOf(c) == SeqsUpTo(c.recs, MaxRecs) \cup c.fixed

Init ==
    /\ \E c \in Calls :
          /\ fn = c.fn
          /\ freq_bands = c.freq_bands
          /\ date_bin = c.date_bin
          /\ normalize = c.normalize
          /\ boundary = c.boundary
          /\ omit_bands = c.omit_bands
          /\ data \in DataOf(c)
    /\ pc = "check"
    /\ err = "none"
    /\ rendered = FALSE
    /\ keys = <<>>
    /\ bands = <<>>
    /\ remove_bands = <<>>
    /\ i = 0
    /\ dates = <<>>
    /\ date = <<>>
    /\ hist = <<>>
    /\ hist2d = <<>>
    /\ ordered_bands = <<>>
    /\ hist_den = 1
    /\ col_den = <<>>
    /\ nodata = <<>>
    /\ groundscatter = FALSE
    /\ beam_num = [k |-> "all", v |-> 0]
    /\ gate_num = [k |-> "all", v |-> 0]
    /\ vals = <<>>
    /\ vals_gs = <<>>
    /\ gate_min = 0
    /\ gate_max = 0
    /\ filtered_data = <<>>

(* ------------------------------- actions ------------------------------- *)

Raise(e) == pc' = pc /\ err' = e

\* Check Frequency Bands (895-903, 1115-1123).
CheckBands ==
    /\ pc = "check" /\ err = "none"
    /\ IF CheckFrequencyBands(freq_bands) = "none"
       THEN pc' = "boundary" /\ err' = err
       ELSE Raise(CheckFrequencyBands(freq_bands))
    /\ UNCHANGED <<inputs, gates, vector, boundary, omit_bands, rendered, keys, bands,
                   remove_bands, i, dates, date, hist, hist2d, ordered_bands,
                   hist_den, col_den, nodata>>

\* Generate Boundary (909-910, 1129-1130).
SetBoundary ==
    /\ pc = "boundary" /\ err = "none"
    /\ LET g == GenerateBoundary(freq_bands, boundary) IN
         /\ boundary' = g.boundary
         /\ IF g.err = "none" THEN pc' = "gather" /\ err' = err
            ELSE Raise(g.err)
    /\ UNCHANGED <<inputs, gates, vector, omit_bands, rendered, keys, bands, remove_bands, i,
                   dates, date, hist, hist2d, ordered_bands, hist_den,
                   col_den, nodata>>

\* Gather Bands (916-928, 1136-1145).
Gather ==
    /\ pc = "gather" /\ err = "none"
    /\ LET g == GatherBands(fn, freq_bands, boundary) IN
         /\ keys' = g.keys
         /\ bands' = g.bands
         /\ IF g.err = "none" THEN pc' = "remove" /\ err' = err
            ELSE Raise(g.err)
    /\ UNCHANGED <<inputs, gates, vector, boundary, omit_bands, rendered, remove_bands, i,
                   dates, date, hist, hist2d, ordered_bands, hist_den,
                   col_den, nodata>>

\* Remove Bands (934-942, 1151-1159), then the start of the first loop:
\* hist = np.zeros(len(bin_centers)) in 1D, dates = [] in 2D. A lone int in
\* omit_bands is rebound to a one-element list.
Remove ==
    /\ pc = "remove" /\ err = "none"
    /\ LET g == RemoveBands(freq_bands, omit_bands) IN
         /\ remove_bands' = g.remove_bands
         /\ IF g.err = "none"
            THEN /\ pc' = IF fn = "1d" THEN "hist" ELSE "dates"
                 /\ err' = err
            ELSE Raise(g.err)
    /\ omit_bands' = WrapInt(omit_bands)
    /\ i' = IF RemoveBands(freq_bands, omit_bands).err = "none" THEN 1 ELSE i
    /\ hist' = IF fn = "1d" /\ RemoveBands(freq_bands, omit_bands).err = "none"
               THEN Zeros(Len(bands))
               ELSE hist
    /\ UNCHANGED <<inputs, gates, vector, boundary, rendered, keys, bands, dates, date,
                   hist2d, ordered_bands, hist_den, col_den, nodata>>

\* Gather Dates (1165-1189), one record per step; after the last record
\* hist2d = np.zeros((len(bands), len(dates))) starts the second loop.
DatesLoop ==
    /\ pc = "dates" /\ err = "none"
    /\ IF i > Len(data)
       THEN /\ hist2d' = [r \in 1..Len(bands) |-> Zeros(Len(dates))]
            /\ pc' = "hist"
            /\ i' = 1
            /\ UNCHANGED <<err, dates, date>>
       ELSE LET st == GatherDatesStep(data[i], date_bin,
                          [err |-> "none", dates |-> dates, date |-> date])
            IN  /\ dates' = st.dates
                /\ date' = st.date
                /\ hist2d' = hist2d
                /\ IF st.err = "none" THEN pc' = pc /\ err' = err /\ i' = i + 1
                   ELSE Raise(st.err) /\ i' = i
    /\ UNCHANGED <<inputs, gates, vector, boundary, omit_bands, rendered, keys, bands,
                   remove_bands, hist, ordered_bands, hist_den, col_den,
                   nodata>>

\* Generate Histogram (948-985, 1195-1256), one record per step.
HistLoop ==
    /\ pc = "hist" /\ err = "none"
    /\ IF i > Len(data)
       THEN /\ pc' = "rank"
            /\ UNCHANGED <<err, hist, hist2d, date, i>>
       ELSE LET st == HistStep(fn, data[i], date_bin, boundary, remove_bands,
                          bands, dates,
                          [err |-> "none", hist |-> hist, hist2d |-> hist2d,
                           date |-> date])
            IN  /\ hist' = st.hist
                /\ hist2d' = st.hist2d
                /\ date' = st.date
                /\ IF st.err = "none" THEN pc' = pc /\ err' = err /\ i' = i + 1
                   ELSE Raise(st.err) /\ i' = i
    /\ UNCHANGED <<inputs, gates, vector, boundary, omit_bands, rendered, keys, bands,
                   remove_bands, dates, ordered_bands, hist_den, col_den,
                   nodata>>

\* Ordered Frequency Bands (991-995, 1262-1267).
Rank ==
    /\ pc = "rank" /\ err = "none"
    /\ \E p \in Argsorts(Totals(fn, hist, hist2d)) :
          ordered_bands' = OrderedBands(p, Totals(fn, hist, hist2d), bands)
    /\ pc' = "normalize"
    /\ UNCHANGED <<inputs, gates, vector, boundary, omit_bands, err, rendered, keys, bands,
                   remove_bands, i, dates, date, hist, hist2d, hist_den,
                   col_den, nodata>>

\* Normalize (1001-1002) and Normalize Columns (1273-1278).
Normalize ==
    /\ pc = "normalize" /\ err = "none"
    /\ hist_den' = IF fn = "1d" THEN HistDen(normalize, hist) ELSE hist_den
    /\ col_den' = IF fn = "2d" THEN ColDen(normalize, hist2d, Len(dates))
                  ELSE col_den
    /\ pc' = IF fn = "1d" THEN "plot" ELSE "cmap"
    /\ UNCHANGED <<inputs, gates, vector, boundary, omit_bands, err, rendered, keys, bands,
                   remove_bands, i, dates, date, hist, hist2d, ordered_bands,
                   nodata>>

\* Color Map (1284-1299), with the default cmap, and Format Dates
\* (1305-1339): every branch of a known date_bin reads data[0] and data[-1],
\* an IndexError on an empty list; an unknown date_bin matches no branch and
\* leaves start_date, end_date, x_label and date_labels unbound.
ColorMap ==
    /\ pc = "cmap" /\ err = "none"
    /\ nodata' = NoData(hist2d, col_den, Len(dates))
    /\ IF KnownDateBin(date_bin) /\ data = <<>>
       THEN Raise("IndexError")
       ELSE pc' = "plot" /\ err' = err
    /\ UNCHANGED <<inputs, gates, vector, boundary, omit_bands, rendered, keys, bands,
                   remove_bands, i, dates, date, hist, hist2d, ordered_bands,
                   hist_den, col_den>>

\* What the plotting sections raise, "none" when the function returns.
\* 1D, Plot Histogram (1008-1014): max(bands) of no band is a ValueError
\* before the figure exists; Plot Titles (1020-1034): data[0] of an empty
\* list is an IndexError. 2D, Plot Histogram (1345-1352) draws first; Plot
\* Titles (1358-1369): data[0] of an empty list is an IndexError, start_date
\* of an unknown date_bin is unbound (NameError), ordered_bands[0] of no
\* band is an IndexError.
PlotError(f, recs, db, bnds) ==
    IF f = "1d"
    THEN IF bnds = <<>> THEN "ValueError"
         ELSE IF recs = <<>> THEN "IndexError" ELSE "none"
    ELSE IF recs = <<>> THEN "IndexError"
         ELSE IF ~KnownDateBin(db) THEN "NameError"
         ELSE IF bnds = <<>> THEN "IndexError" ELSE "none"

\* plt.subplots() is reached unless max(bands) fails first.
PlotDraws(f, bnds) == f = "2d" \/ bnds # <<>>

\* Plot Histogram, Plot Titles, Format Plots and the return of
\* ordered_bands (1008-1053, 1345-1395).
Plot ==
    /\ pc = "plot" /\ err = "none"
    /\ rendered' = PlotDraws(fn, bands)
    /\ IF PlotError(fn, data, date_bin, bands) = "none"
       THEN pc' = "done" /\ err' = err
       ELSE Raise(PlotError(fn, data, date_bin, bands))
    /\ UNCHANGED <<inputs, gates, vector, boundary, omit_bands, keys, bands, remove_bands, i,
                   dates, date, hist, hist2d, ordered_bands, hist_den,
                   col_den, nodata>>

\* The call is over: it returned or it raised.
Terminated == pc = "done" \/ err # "none"

Next ==
    \/ CheckBands
    \/ SetBoundary
    \/ Gather
    \/ Remove
    \/ DatesLoop
    \/ HistLoop
    \/ Rank
    \/ Normalize
    \/ ColorMap
    \/ Plot

Spec == Init /\ [][Next]_vars

(* --------------------- Filter.filter_fitacf_gates ---------------------- *)

Field(type, value) == [type |-> type, value |-> value]

\* A FITACF record with range gates slist (a list or an ndarray): v holds one
\* value per gate, ptab is a list of two pulses whatever the gates are, combf
\* is a string of two characters, nrang is a number.
FitRec(type, slist) ==
    [slist |-> Field(type, slist),
     v |-> Field(type, [n \in 1..Len(slist) |-> 10 * n]),
     ptab |-> Field("list", <<7, 8>>),
     combf |-> Field("str", <<97, 98>>),
     nrang |-> Field("int", 75)]

\* The records handed to the filter: without slist, with an empty slist,
\* with one or two gates in either container type, and one without nrang.
FitRecords ==
    {[v |-> Field("list", <<10>>), nrang |-> Field("int", 75)]}
    \cup {FitRec(t, sl) : t \in {"list", "ndarray"},
                          sl \in {<<>>, <<5>>, <<0, 5>>, <<5, 10>>, <<10, 0>>}}
    \cup {[slist |-> Field("list", <<5, 0>>), v |-> Field("list", <<10, 20>>)]}

\* (gate_min, gate_max) as passed; the last range is empty.
GateRanges == {<<0, 5>>, <<5, 5>>, <<5, 10>>, <<6, 4>>}

\* slist_mask = (slist >= gate_min) & (slist <= gate_max)
SlistMask(slist, gmin, gmax) ==
    [n \in 1..Len(slist) |-> slist[n] >= gmin /\ slist[n] <= gmax]

\* vector_field[slist_mask]
RECURSIVE Masked(_, _)
Masked(value, mask) ==
    IF value = <<>> THEN <<>>
    ELSE (IF Head(mask) THEN <<Head(value)>> ELSE <<>>)
         \o Masked(Tail(value), Tail(mask))

\* The record is passed over: it has no 'slist', len(slist) == 0, or
\* not slist_mask.any().
Skipped(rec, gmin, gmax) ==
    IF "slist" \notin DOMAIN rec THEN TRUE
    ELSE IF Len(rec.slist.value) = 0 THEN TRUE
    ELSE \A n \in 1..Len(rec.slist.value) :
            ~SlistMask(rec.slist.value, gmin, gmax)[n]

\* data_copy after the loop over the items of the record and the update of
\* nrang: a list or ndarray whose shape[0] is len(slist) is indexed by the
\* mask and keeps its type, any other value is the copied one, and nrang,
\* when there, is gate_max - gate_min + 1.
FilteredCopy(rec, gmin, gmax) ==
    LET mask == SlistMask(rec.slist.value, gmin, gmax) IN
    [k \in DOMAIN rec |->
        IF k = "nrang" THEN Field(rec[k].type, gmax - gmin + 1)
        ELSE IF /\ rec[k].type \in {"list", "ndarray"}
                /\ Len(rec[k].value) = Len(rec.slist.value)
             THEN Field(rec[k].type, Masked(rec[k].value, mask))
             ELSE rec[k]]

\* Mutant of DeepCopied: data_copy is data[i] itself, so every write to
\* data_copy is a write to the caller's record.
Aliased(rec, gmin, gmax) ==
    [input |-> FilteredCopy(rec, gmin, gmax),
     output |-> FilteredCopy(rec, gmin, gmax)]

\* data_copy = copy.deepcopy(data[i]): every write goes to the copy (output)
\* and the caller's record (input) is what it was.
DeepCopied(rec, gmin, gmax) ==
    [input |-> rec, output |-> FilteredCopy(rec, gmin, gmax)]

\* A call of filter_fitacf_gates(data, gate_min, gate_max).
FilterInit ==
    /\ fn = "filter"
    /\ data \in SeqsUpTo(FitRecords, MaxFitRecs)
    /\ \E g \in GateRanges : gate_min = g[1] /\ gate_max = g[2]
    /\ filtered_data = <<>>
    /\ pc = "filter"
    /\ i = 1
    /\ err = "none"
    /\ freq_bands = [isdict |-> TRUE, items |-> <<>>]
    /\ date_bin = "hour"
    /\ normalize = FALSE
    /\ boundary = NoBoundary
    /\ omit_bands = NoOmit
    /\ rendered = FALSE
    /\ keys = <<>>
    /\ bands = <<>>
    /\ remove_bands = <<>>
    /\ dates = <<>>
    /\ date = <<>>
    /\ hist = <<>>
    /\ hist2d = <<>>
    /\ ordered_bands = <<>>
    /\ hist_den = 1
    /\ col_den = <<>>
    /\ nodata = <<>>
    /\ groundscatter = FALSE
    /\ beam_num = [k |-> "all", v |-> 0]
    /\ gate_num = [k |-> "all", v |-> 0]
    /\ vals = <<>>
    /\ vals_gs = <<>>

\* The loop over the records (43-81), one record per step, and the return
\* of filtered_data (83).
FilterLoop ==
    /\ pc = "filter"
    /\ IF i > Len(data)
       THEN /\ pc' = "returned"
            /\ UNCHANGED <<data, filtered_data, i>>
       ELSE /\ pc' = pc
            /\ i' = i + 1
            /\ IF Skipped(data[i], gate_min, gate_max)
               THEN UNCHANGED <<data, filtered_data>>
               ELSE LET c == DeepCopied(data[i], gate_min, gate_max) IN
                    /\ data' = [data EXCEPT ![i] = c.input]
                    /\ filtered_data' = Append(filtered_data, c.output)
    /\ UNCHANGED <<vector, fn, freq_bands, date_bin, normalize, gate_min,
                   gate_max, boundary, omit_bands, err, rendered, keys, bands,
                   remove_bands, dates, date, hist, hist2d, ordered_bands,
                   hist_den, col_den, nodata>>

FilterNext == FilterLoop

FilterSpec == FilterInit /\ [][FilterNext]_vars

(* ---------------------- Histogram.plot_vector_hist ---------------------- *)

\* A record of a call plot_vector_hist(parameter, data, ...): whether it has
\* the parameter (then a numpy array, param), whether it has gflg, its
\* bmnum and its slist.
VecRec(hp, p, hg, g, bm) ==
    [has_param |-> hp, param |-> p, has_gflg |-> hg, gflg |-> g, bmnum |-> bm,
     slist |-> [j \in 1..Len(p) |-> j]]

\* Records with as many flags as values, with fewer, with more, without
\* gflg, without the parameter, with a value that is NaN and no flag for
\* it, and with ground scatter only.
VecRecords ==
    {VecRec(TRUE, <<Num(1), Num(2)>>, TRUE, <<0, 1>>, 0),
     VecRec(TRUE, <<Num(1), Num(2)>>, TRUE, <<0>>, 0),
     VecRec(TRUE, <<Num(1)>>, TRUE, <<0, 1>>, 1),
     VecRec(TRUE, <<Num(1), Num(2)>>, FALSE, <<>>, 0),
     VecRec(FALSE, <<>>, TRUE, <<1>>, 0),
     VecRec(TRUE, <<NaN>>, TRUE, <<>>, 0),
     VecRec(TRUE, <<Num(2), Num(2)>>, TRUE, <<1, 1>>, 1)}

\* A beam_num or gate_num: the string 'all' or a number.
All == [k |-> "all", v |-> 0]
BeamNums == {All, Num(0), Num(16)}
GateNums == {All, Num(1), Num(75)}

\* key_error after the loop of Check Parameter (142-150).
key_error(recs) == ~\E n \in 1..Len(recs) : recs[n].has_param

\* gflg_error after the first loop of Check Ground Scatter (157-165).
gflg_error(recs) == ~\E n \in 1..Len(recs) : recs[n].has_gflg

\* What the try body of the second loop of Check Ground Scatter (168-170)
\* raises on rec: the subscripts raise KeyError for a record without the
\* parameter or without gflg, and the body raises KeyError itself when the
\* two lengths differ.
LengthCheckBody(rec) ==
    IF ~rec.has_param \/ ~rec.has_gflg THEN "KeyError"
    ELSE IF Len(rec.param) # Len(rec.gflg) THEN "KeyError"
    ELSE "none"

\* except KeyError: continue (172-173)
ExceptKeyError(e) == e = "KeyError"

\* What the second loop of Check Ground Scatter (167-173) raises to the
\* caller: the first exception of a try body that the handler does not
\* catch.
RECURSIVE LengthCheck(_)
LengthCheck(recs) ==
    IF recs = <<>> THEN "none"
    ELSE LET e == LengthCheckBody(Head(recs))
         IN  IF e # "none" /\ ~ExceptKeyError(e) THEN e
             ELSE LengthCheck(Tail(recs))

\* (beam_num not in range(0, 16) and beam_num != 'all') or the same for
\* gate_num and range(0, 75) (179-180).
BeamOrGateInvalid(beam, gate) ==
    \/ beam # All /\ beam.v \notin 0..15
    \/ gate # All /\ gate.v \notin 0..74

\* The inner loop of Gather Data (193-206) over the positions j.. of the
\* parameter of rec, from the lists st = [err, vals, vals_gs]. Reading
\* data[i]['gflg'] of a record without gflg is the KeyError the outer
\* handler turns into `continue` (err "caught" ends the record); reading
\* data[i]['gflg'][j] past the end of gflg is an IndexError that nothing
\* handles.
RECURSIVE GatherValues(_, _, _, _, _)
GatherValues(rec, j, gs, gate, st) ==
    IF j > Len(rec.param) \/ st.err # "none" THEN st
    ELSE IF gate # All /\ gate.v # rec.slist[j]
         THEN GatherValues(rec, j + 1, gs, gate, st)
    ELSE IF NanOrInf(rec.param[j])
         THEN GatherValues(rec, j + 1, gs, gate, st)
    ELSE IF ~gs
         THEN GatherValues(rec, j + 1, gs, gate,
                  [st EXCEPT !.vals = Append(@, rec.param[j])])
    ELSE IF ~rec.has_gflg THEN [st EXCEPT !.err = "caught"]
    ELSE IF j > Len(rec.gflg) THEN [st EXCEPT !.err = "IndexError"]
    ELSE IF rec.gflg[j] = 1
         THEN GatherValues(rec, j + 1, gs, gate,
                  [st EXCEPT !.vals_gs = Append(@, rec.param[j])])
    ELSE GatherValues(rec, j + 1, gs, gate,
             [st EXCEPT !.vals = Append(@, rec.param[j])])

\* One record of Gather Data (188-209): [err, vals, vals_gs] after it.
GatherRecord(rec, gs, beam, gate, vs, vg) ==
    LET st == [err |-> "none", vals |-> vs, vals_gs |-> vg]
    IN  IF beam # All /\ beam.v # rec.bmnum THEN st
        ELSE IF ~rec.has_param THEN st
        ELSE LET r == GatherValues(rec, 1, gs, gate, st)
             IN  [r EXCEPT !.err = IF @ = "caught" THEN "none" ELSE @]

\* Check Data (215-220).
NoDataToPlot(gs, vs, vg) == vs = <<>> \/ (gs /\ vg = <<>>)

\* A call of plot_vector_hist(parameter, data, groundscatter, beam_num =,
\* gate_num =), the other arguments at their defaults.
VectorInit ==
    /\ fn = "vector"
    /\ data \in SeqsUpTo(VecRecords, MaxVecRecs)
    /\ groundscatter \in BOOLEAN
    /\ beam_num \in BeamNums
    /\ gate_num \in GateNums
    /\ vals = <<>>
    /\ vals_gs = <<>>
    /\ pc = "parameter"
    /\ i = 1
    /\ err = "none"
    /\ freq_bands = [isdict |-> TRUE, items |-> <<>>]
    /\ date_bin = "hour"
    /\ normalize = TRUE
    /\ boundary = NoBoundary
    /\ omit_bands = NoOmit
    /\ rendered = FALSE
    /\ keys = <<>>
    /\ bands = <<>>
    /\ remove_bands = <<>>
    /\ dates = <<>>
    /\ date = <<>>
    /\ hist = <<>>
    /\ hist2d = <<>>
    /\ ordered_bands = <<>>
    /\ hist_den = 1
    /\ col_den = <<>>
    /\ nodata = <<>>
    /\ gate_min = 0
    /\ gate_max = 0
    /\ filtered_data = <<>>

\* What no section of plot_vector_hist writes.
idle == <<inputs, gates, groundscatter, beam_num, gate_num, boundary,
          omit_bands, keys, bands, remove_bands, dates, date, hist, hist2d,
          ordered_bands, hist_den, col_den, nodata>>

\* Check Parameter (142-150).
CheckParameter ==
    /\ pc = "parameter" /\ err = "none"
    /\ IF key_error(data) THEN Raise("KeyError")
       ELSE pc' = "groundscatter" /\ err' = err
    /\ UNCHANGED <<idle, i, vals, vals_gs, rendered>>

\* Check Ground Scatter (156-173).
CheckGroundScatter ==
    /\ pc = "groundscatter" /\ err = "none"
    /\ IF groundscatter /\ gflg_error(data) THEN Raise("KeyError")
       ELSE IF groundscatter /\ LengthCheck(data) # "none"
            THEN Raise(LengthCheck(data))
       ELSE pc' = "beamgate" /\ err' = err
    /\ UNCHANGED <<idle, i, vals, vals_gs, rendered>>

\* Check Beam and Gate Number (179-180).
CheckBeamAndGate ==
    /\ pc = "beamgate" /\ err = "none"
    /\ IF BeamOrGateInvalid(beam_num, gate_num) THEN Raise("ValueError")
       ELSE pc' = "gather" /\ err' = err
    /\ UNCHANGED <<idle, i, vals, vals_gs, rendered>>

\* Gather Data (186-209), one record per step.
GatherData ==
    /\ pc = "gather" /\ err = "none"
    /\ IF i > Len(data)
       THEN pc' = "checkdata" /\ UNCHANGED <<err, i, vals, vals_gs>>
       ELSE LET r == GatherRecord(data[i], groundscatter, beam_num, gate_num,
                                  vals, vals_gs)
            IN  /\ vals' = r.vals
                /\ vals_gs' = r.vals_gs
                /\ i' = i + 1
                /\ IF r.err = "none" THEN pc' = pc /\ err' = err
                   ELSE Raise(r.err)
    /\ UNCHANGED <<idle, rendered>>

\* Check Data (215-220).
CheckData ==
    /\ pc = "checkdata" /\ err = "none"
    /\ IF NoDataToPlot(groundscatter, vals, vals_gs) THEN Raise("ValueError")
       ELSE pc' = "plot" /\ err' = err
    /\ UNCHANGED <<idle, i, vals, vals_gs, rendered>>

\* Generate Histogram to the return of the statistics (226-364): with the
\* default bins and boundaries the lists that passed Check Data are drawn.
VectorPlot ==
    /\ pc = "plot" /\ err = "none"
    /\ rendered' = TRUE
    /\ pc' = "done"
    /\ UNCHANGED <<idle, i, vals, vals_gs, err>>

VectorNext ==
    \/ CheckParameter
    \/ CheckGroundScatter
    \/ CheckBeamAndGate
    \/ GatherData
    \/ CheckData
    \/ VectorPlot

VectorSpec == VectorInit /\ [][VectorNext]_vars

(* ------------------------- vocabulary of the claims -------------------- *)

\* The sample filter in the words of the specification: a channel-2 record
\* with a finite tfreq strictly inside the boundary, in no omitted interval,
\* with a gflg sequence, and inside some band of the working list.
Contains(band, v) == band[1] <= v /\ v <= band[2]

Survives(rec) ==
    /\ rec.channel = 2
    /\ rec.tfreq.k = "num"
    /\ boundary.lo < rec.tfreq.v /\ rec.tfreq.v < boundary.hi
    /\ \A n \in 1..Len(remove_bands) : ~Contains(remove_bands[n], rec.tfreq.v)
    /\ rec.has_gflg
    /\ \E b \in 1..Len(bands) : Contains(bands[b], rec.tfreq.v)

\* The first band of the working list that contains the record's tfreq.
Owner(rec) ==
    CHOOSE b \in 1..Len(bands) :
        /\ Contains(bands[b], rec.tfreq.v)
        /\ \A m \in 1..Len(bands) : Contains(bands[m], rec.tfreq.v) => b <= m

\* The number of positions of a gflg sequence equal to 0.
RECURSIVE Ionospheric(_)
Ionospheric(g) ==
    IF g = <<>> THEN 0
    ELSE (IF Head(g) = 0 THEN 1 ELSE 0) + Ionospheric(Tail(g))

\* The sections after the second loop, where the counts are final.
Counted == err = "none" /\ pc \in {"rank", "normalize", "cmap", "plot", "done"}
\* The sections after Ordered Frequency Bands, where the ranked list exists.
Ranked == err = "none" /\ pc \in {"normalize", "cmap", "plot", "done"}

\* The key of the band table as an int, the form 'Band' has.
TableHas(id, range) ==
    \E n \in 1..Len(freq_bands.items) :
        IntOfStr(freq_bands.items[n].key) = id /\ freq_bands.items[n].value = range

(* -------------------------------- claims ------------------------------- *)

\* C1 (as claimed): with date_bin = 'hour', every cell of the 2D matrix is the
\* sum of the ionospheric-point counts of the surviving records whose hour h
\* is even and whose bucket h is the cell's column and whose band is the
\* cell's row: an odd-hour record adds nothing to any cell.
C1_HourParity ==
    (fn = "2d" /\ date_bin = "hour" /\ Counted) =>
        \A r \in 1..Len(bands) : \A c \in 1..Len(dates) :
            hist2d[r][c] =
                SumSeq([n \in 1..Len(data) |->
                    IF /\ Survives(data[n])
                       /\ data[n].time_hr % 2 = 0
                       /\ dates[c] = <<1, 1, 1, data[n].time_hr>>
                       /\ Owner(data[n]) = r
                    THEN Ionospheric(data[n].gflg)
                    ELSE 0])

\* C2 (as claimed): with an omit set, the returned Ranked Band List has no
\* entry for an omitted band.
C2_OmittedAbsent ==
    (pc = "done" /\ omit_bands.kind # "None") =>
        \A a \in 1..Len(ordered_bands) : \A n \in 1..Len(remove_bands) :
            ordered_bands[a].FreqRange # remove_bands[n]

C4_BandIsTableKey ==
    pc = "done" =>
        \A a \in 1..Len(ordered_bands) :
            TableHas(ordered_bands[a].Band, ordered_bands[a].FreqRange)

\* C5: the ranked list holds each retained band exactly once, with its range
\* and its total (1D: its histogram slot, 2D: its row sum), in non-increasing
\* order of the totals.
C5_RankedOnceDescending ==
    Ranked =>
        /\ Len(ordered_bands) = Len(bands)
        /\ \A b \in 1..Len(bands) :
              Cardinality({a \in 1..Len(ordered_bands) :
                              ordered_bands[a].Band = b - 1}) = 1
        /\ \A a \in 1..Len(ordered_bands) :
              LET b == ordered_bands[a].Band + 1 IN
              /\ ordered_bands[a].FreqRange = bands[b]
              /\ ordered_bands[a].Count =
                    IF fn = "1d" THEN hist[b] ELSE SumSeq(hist2d[b])
        /\ \A a \in 1..(Len(ordered_bands) - 1) :
              ordered_bands[a].Count >= ordered_bands[a + 1].Count

\* C5 witness: three bands with distinct totals ranked out of table order
\* (middle band first, then the first, then the last).
C5_Witness ==
    /\ pc = "done" /\ Len(ordered_bands) = 3
    /\ ordered_bands[1].Band = 1 /\ ordered_bands[1].Count = 2
    /\ ordered_bands[2].Band = 0 /\ ordered_bands[2].Count = 1
    /\ ordered_bands[3].Band = 2 /\ ordered_bands[3].Count = 0

\* The record sequence with all channel != 2 records removed.
IsChannel2(rec) == rec.channel = 2
OnChannel2Only(recs) == SelectSeq(recs, IsChannel2)

Total(b) == IF fn = "1d" THEN hist[b] ELSE SumSeq(hist2d[b])

\* C7: the amount credited to the owning band of every retained record is
\* the number of positions of its gflg equal to 0: after any number of
\* records, the total of every band is the sum of those numbers over the
\* retained records it owns.
C7_IonosphericOnly ==
    ((pc = "hist" /\ err = "none") \/ Counted) =>
        LET done == IF pc = "hist" THEN i - 1 ELSE Len(data) IN
        \A b \in 1..Len(bands) :
            Total(b) =
                SumSeq([n \in 1..done |->
                    IF Survives(data[n]) /\ Owner(data[n]) = b
                    THEN Ionospheric(data[n].gflg)
                    ELSE 0])

\* C7 witness: gflg = [0, 0, 1] has just credited 2 to its band.
C7_Witness ==
    /\ pc = "hist" /\ err = "none" /\ i = 2
    /\ data[1].gflg = <<0, 0, 1>>
    /\ Survives(data[1])
    /\ Total(Owner(data[1])) = 2

\* The band table holds numbers and the table, the boundary and the omit set
\* raise nothing.
BandsAccepted ==
    /\ \A n \in 1..Len(freq_bands.items) : freq_bands.items[n].elt = "num"
    /\ CheckFrequencyBands(freq_bands) = "none"
    /\ GenerateBoundary(freq_bands, boundary).err = "none"
    /\ GatherBands(fn, freq_bands, GenerateBoundary(freq_bands, boundary).boundary).err
          = "none"
    /\ RemoveBands(freq_bands, omit_bands).err = "none"

\* The table raises nothing in the sections that come before Remove Bands.
BandsAcceptedBeforeRemove ==
    /\ CheckFrequencyBands(freq_bands) = "none"
    /\ GenerateBoundary(freq_bands, boundary).err = "none"
    /\ GatherBands(fn, freq_bands, GenerateBoundary(freq_bands, boundary).boundary).err
          = "none"

\* C8 (as claimed): in the 2D function a date_bin other than 'year', 'month',
\* 'day', 'hour' makes the call fail with ValueError before any rendering,
\* whatever the records are.
C8_UnknownDateBinRejected ==
    (fn = "2d" /\ date_bin \notin {"year", "month", "day", "hour"}
     /\ BandsAccepted /\ Terminated) =>
        (err = "ValueError" /\ ~rendered)

\* A value that is a two-element numeric sequence, and a table as the
\* specification wants it.
TwoNumbers(item) == Len(item.value) = 2 /\ item.elt = "num"
WellFormed(fb) ==
    fb.isdict /\ \A n \in 1..Len(fb.items) : TwoNumbers(fb.items[n])

\* C9 (as claimed): a table that is no mapping or has a value that is no
\* two-element numeric sequence is rejected with TypeError before any record
\* is read and before any rendering, and nothing else is enforced: a table
\* of two-element numeric sequences passes the check.
C9_TableValidation ==
    Terminated =>
        /\ ~WellFormed(freq_bands) =>
              (err = "TypeError" /\ pc \in {"check", "boundary", "gather", "remove"})
        /\ WellFormed(freq_bands) => ~(pc = "check" /\ err # "none")

\* A table as the check wants it: a dict whose values are lists of exactly
\* two elements.
ListsOfTwo(fb) ==
    /\ fb.isdict
    /\ \A n \in 1..Len(fb.items) :
          fb.items[n].vtype = "list" /\ Len(fb.items[n].value) = 2

\* C9 (amended): the check rejects the table with TypeError, before any
\* record is read and before any rendering, exactly when the table is no
\* dict or some value is no list of exactly two elements; the check reads
\* neither the element types nor the keys nor the order or overlap of the
\* intervals.
C9_ListsOfTwoChecked ==
    /\ ~ListsOfTwo(freq_bands) =>
          /\ pc = "check" /\ err \in {"none", "TypeError"}
          /\ Terminated => err = "TypeError"
          /\ i = 0 /\ ~rendered
    /\ ListsOfTwo(freq_bands) => ~(pc = "check" /\ err # "none")

\* C9 witness: a table with a three-element entry has been rejected with
\* records waiting.
C9_Witness ==
    /\ pc = "check" /\ err = "TypeError"
    /\ \E n \in 1..Len(freq_bands.items) : Len(freq_bands.items[n].value) = 3
    /\ data # <<>>

\* The least low and the greatest high of the band table.
MinLow(fb) ==
    CHOOSE v \in {fb.items[n].value[1] : n \in 1..Len(fb.items)} :
        \A n \in 1..Len(fb.items) : v <= fb.items[n].value[1]
MaxHigh(fb) ==
    CHOOSE v \in {fb.items[n].value[2] : n \in 1..Len(fb.items)} :
        \A n \in 1..Len(fb.items) : v >= fb.items[n].value[2]

\* C10 (as claimed): when no boundary is supplied, the boundary used is
\* (minimum of all band lows, maximum of all band highs), for every valid
\* table, nested and overlapping bands included.
C10_DefaultBoundary ==
    [][(pc = "boundary" /\ boundary.elt = "None" /\ WellFormed(freq_bands)
        /\ pc' = "gather")
       => (boundary'.lo = MinLow(freq_bands) /\ boundary'.hi = MaxHigh(freq_bands))]_vars

\* omit_bands names an identifier that is no key of the band table.
NamesUnknownBand(fb, omit) ==
    /\ omit.kind # "None"
    /\ \E n \in 1..Len(omit.ids) :
          \A m \in 1..Len(fb.items) : IntOfStr(fb.items[m].key) # omit.ids[n]

\* C11: when omit_bands names an identifier that is no key of the band table,
\* the call never gets past Remove Bands: no record is read, nothing is
\* counted and nothing is rendered, and Remove Bands ends the call with
\* TypeError.
C11_UnknownOmitRejected ==
    NamesUnknownBand(freq_bands, omit_bands) =>
        /\ pc \in {"check", "boundary", "gather", "remove"}
        /\ i = 0 /\ hist = <<>> /\ hist2d = <<>> /\ dates = <<>>
        /\ ordered_bands = <<>> /\ ~rendered
        /\ (pc = "remove" /\ Terminated) => err = "TypeError"
        /\ (BandsAcceptedBeforeRemove /\ Terminated) =>
              (pc = "remove" /\ err = "TypeError")

\* C11 witness: omit_bands = [0, 7] on the three bands '0', '1', '2' has
\* been rejected with a channel-2 record waiting to be counted.
C11_Witness ==
    /\ pc = "remove" /\ err = "TypeError"
    /\ omit_bands.ids = <<0, 7>>
    /\ Len(freq_bands.items) = 3
    /\ data # <<>> /\ data[1].channel = 2
    /\ i = 0 /\ ~rendered

\* Bands that follow one another: each band starts where the one before it
\* in the table ends.
Contiguous(fb) ==
    /\ WellFormed(fb) /\ fb.items # <<>>
    /\ \A n \in 1..Len(fb.items) : fb.items[n].value[1] < fb.items[n].value[2]
    /\ \A n \in 1..(Len(fb.items) - 1) :
          fb.items[n].value[2] = fb.items[n + 1].value[1]

\* The boundary in use is the default one of the table.
DefaultBoundaryInUse ==
    boundary.elt = "num" /\ boundary.lo = MinLow(freq_bands)
                         /\ boundary.hi = MaxHigh(freq_bands)

\* A channel-2 record whose tfreq falls in band b of the table, as the
\* specification reads it: a finite tfreq strictly inside the boundary and in
\* no omitted interval, a gflg sequence, and b the first band of the table
\* whose closed interval holds tfreq.
FallsInTableBand(rec, b) ==
    /\ rec.channel = 2 /\ rec.tfreq.k = "num" /\ rec.has_gflg
    /\ boundary.lo < rec.tfreq.v /\ rec.tfreq.v < boundary.hi
    /\ \A n \in 1..Len(remove_bands) : ~Contains(remove_bands[n], rec.tfreq.v)
    /\ Contains(freq_bands.items[b].value, rec.tfreq.v)
    /\ \A m \in 1..(b - 1) : ~Contains(freq_bands.items[m].value, rec.tfreq.v)

\* C12: in the 1D function with contiguous bands and the default boundary the
\* raw histogram has one slot per band of the table, in table order, and
\* slot b is the sum of the gflg == 0 counts of the channel-2 records whose
\* tfreq falls in band b; the four records at 9000, 9000, 11000, 11000 kHz
\* with two ionospheric points each and the bands [8000, 10000] and
\* [10000, 12000] give [4, 4], normalized [0.5, 0.5].
C12_SlotPerTableBand ==
    (fn = "1d" /\ Counted /\ Contiguous(freq_bands) /\ DefaultBoundaryInUse) =>
        /\ Len(hist) = Len(freq_bands.items)
        /\ \A b \in 1..Len(hist) :
              hist[b] = SumSeq([n \in 1..Len(data) |->
                            IF FallsInTableBand(data[n], b)
                            THEN Ionospheric(data[n].gflg)
                            ELSE 0])
        /\ (freq_bands = TE2E /\ data = E2E) =>
              /\ hist = <<4, 4>>
              /\ (normalize /\ pc \in {"plot", "done"}) =>
                    (2 * hist[1] = hist_den /\ 2 * hist[2] = hist_den)

\* C12 witness: the end-to-end scenario has returned with raw histogram
\* [4, 4] and every bin divided by 8.
C12_Witness ==
    /\ fn = "1d" /\ pc = "done" /\ normalize
    /\ freq_bands = TE2E /\ data = E2E
    /\ hist = <<4, 4>> /\ hist_den = 8

\* The sections after Normalize, where the divisors are set.
Normalized == pc \in {"cmap", "plot", "done"}

\* The raw sum of column c of the matrix.
RawColumnSum(c) == SumSeq([r \in 1..Len(hist2d) |-> hist2d[r][c]])

\* C13: in the 2D function with normalize = True every column is divided by
\* its own raw sum when that sum is positive (the column then sums to 1; a
\* column [3, 1] becomes [3/4, 1/4]) and is left alone, all zero, when the sum
\* is zero; with normalize = False no column is divided.
C13_ColumnsNormalized ==
    (fn = "2d" /\ Normalized) =>
        /\ Len(col_den) = Len(dates)
        /\ \A c \in 1..Len(dates) :
              IF normalize /\ RawColumnSum(c) > 0
              THEN /\ col_den[c] = RawColumnSum(c)
                   /\ (Len(hist2d) = 2 /\ hist2d[1][c] = 3 /\ hist2d[2][c] = 1) =>
                         (4 * hist2d[1][c] = 3 * col_den[c]
                          /\ 4 * hist2d[2][c] = 1 * col_den[c])
              ELSE /\ col_den[c] = 1
                   /\ normalize => \A r \in 1..Len(hist2d) : hist2d[r][c] = 0

\* C13 witness: the matrix with the columns [3, 1] and [0, 0] has been
\* normalized: the first column is divided by 4, the second is not divided.
C13_Witness ==
    /\ fn = "2d" /\ normalize /\ pc = "done"
    /\ hist2d = <<(<<3, 0>>), (<<1, 0>>)>>
    /\ col_den = <<4, 1>>

\* The raw sum of all bins.
GrandTotal == SumSeq(hist)

\* C14: in the 1D function with normalize = True every bin is divided by the
\* grand total of all bins when that total is not zero (the bins then sum to
\* 1), and the raw counts are left as they are when the total is zero or
\* normalize = False.
C14_GrandTotalNormalized ==
    (fn = "1d" /\ pc \in {"plot", "done"}) =>
        IF normalize /\ GrandTotal # 0
        THEN hist_den = GrandTotal
        ELSE hist_den = 1

\* C14 witness: bins [2, 1, 0] have been divided by their total 3.
C14_Witness ==
    /\ fn = "1d" /\ normalize /\ pc = "done"
    /\ Len(hist) = 3 /\ hist[1] = 1 /\ hist[2] = 2 /\ hist[3] = 0
    /\ hist_den = 3

\* C14 witness of the zero total: an all-zero histogram has been left as it
\* is under normalize = True.
C14_ZeroTotalReached ==
    /\ fn = "1d" /\ normalize /\ pc = "done"
    /\ hist = <<0, 0, 0>> /\ hist_den = 1

\* C15: no step of a call, of either function, returning or raising, changes
\* the record list, the band table or the omit_bands object of the caller:
\* the only change to omit_bands is the local name of a lone int being bound
\* to a new one-element list holding it.
C15_InputsNotMutated ==
    [][/\ data' = data
       /\ freq_bands' = freq_bands
       /\ omit_bands'.ids = omit_bands.ids
       /\ omit_bands'.kind # omit_bands.kind =>
             (omit_bands.kind = "int" /\ omit_bands'.kind = "list")]_vars

\* C15 witness: a call given the list [0, 1] as omit_bands and two records
\* has counted, drawn and returned.
C15_Witness ==
    /\ pc = "done" /\ rendered
    /\ omit_bands = OmitList(<<0, 1>>)
    /\ Len(data) = 2
    /\ \E a \in 1..Len(ordered_bands) : ordered_bands[a].Count > 0

\* A gate of the requested range, both bounds included.
InGateRange(g) == gate_min <= g /\ g <= gate_max

\* The positions of the slist of a record whose gate is in the range.
PositionsInRange(rec) ==
    {p \in 1..Len(rec.slist.value) : InGateRange(rec.slist.value[p])}

HasGateInRange(rec) == "slist" \in DOMAIN rec /\ PositionsInRange(rec) # {}

\* The k-th smallest element of a set of numbers, and the elements of a
\* sequence at the positions S, in order.
Nth(S, k) == CHOOSE p \in S : Cardinality({q \in S : q < p}) = k - 1
ElementsAt(value, S) == [k \in 1..Cardinality(S) |-> value[Nth(S, k)]]

\* A field that has one element per gate: a list or an array as long as
\* slist.
PerGateField(rec, key) ==
    /\ rec[key].type \in {"list", "ndarray"}
    /\ Len(rec[key].value) = Len(rec.slist.value)

\* C16: after any number of records, filtered_data holds, in input order, one
\* record for each input record read so far that has a gate g with
\* gate_min <= g <= gate_max, and none for a record without slist, with an
\* empty slist or with no gate in range; in a returned record slist holds
\* exactly the input's gates in range and every list or array field as long
\* as the input's slist holds exactly its elements at those positions; and
\* no step changes an input record.
C16_GatesFiltered ==
    /\ [](fn = "filter" =>
            LET kept == {n \in 1..(i - 1) : HasGateInRange(data[n])} IN
            /\ Len(filtered_data) = Cardinality(kept)
            /\ \A k \in 1..Len(filtered_data) :
                  LET in == data[Nth(kept, k)]
                      out == filtered_data[k]
                      S == PositionsInRange(in)
                  IN  /\ DOMAIN out = DOMAIN in
                      /\ out.slist.value = ElementsAt(in.slist.value, S)
                      /\ \A n \in 1..Len(out.slist.value) :
                            InGateRange(out.slist.value[n])
                      /\ \A key \in DOMAIN in :
                            PerGateField(in, key) =>
                                out[key] = Field(in[key].type,
                                                 ElementsAt(in[key].value, S)))
    /\ [][data' = data]_vars

\* C16 witness: filter_fitacf_gates(data, 0, 5) has returned: the record
\* without slist is dropped, and of the record with gates [10, 0] and values
\* [10, 20] the gate 0 and the value 20 are kept.
C16_Witness ==
    /\ fn = "filter" /\ pc = "returned"
    /\ gate_min = 0 /\ gate_max = 5
    /\ Len(data) = 2
    /\ "slist" \notin DOMAIN data[1]
    /\ "slist" \in DOMAIN data[2]
    /\ data[2].slist = Field("ndarray", <<10, 0>>)
    /\ Len(filtered_data) = 1
    /\ filtered_data[1].slist = Field("ndarray", <<0>>)
    /\ filtered_data[1].v = Field("ndarray", <<20>>)

\* C17 (as claimed): with date_bin = 'hour' the 2D function drops odd-hour
\* records silently: neither record loop raises, also when the first
\* channel-2 record has an odd hour.
C17_OddHourSilent ==
    (fn = "2d" /\ date_bin = "hour" /\ BandsAccepted) =>
        ~(pc \in {"dates", "hist"} /\ err # "none")

\* C18 (as claimed): retained bands with equal totals are listed in band-table
\* order, the band that comes earlier in the table first; the end-to-end
\* scenario with counts [4, 4] is ranked '0' then '1'.
C18_TiesInTableOrder ==
    pc = "done" =>
        /\ \A a \in 1..(Len(ordered_bands) - 1) :
              ordered_bands[a].Count = ordered_bands[a + 1].Count =>
                  ordered_bands[a].Band < ordered_bands[a + 1].Band
        /\ (freq_bands = TE2E /\ data = E2E) =>
              (ordered_bands[1].Band = 0 /\ ordered_bands[2].Band = 1)

\* The second loop is about to read record i.
ReadsRecord == pc = "hist" /\ err = "none" /\ i >= 1 /\ i <= Len(data)

\* C19: a record changes the total of at most one band, the first band of
\* the working list whose closed interval [low, high] holds its tfreq, and a
\* retained record adds its whole count to that band: when bands overlap or
\* share an endpoint, no later band receives any of it.
C19_FirstBandOwns ==
    [][ReadsRecord =>
          LET rec == data[i]
              holds == {b \in 1..Len(bands) : Contains(bands[b], rec.tfreq.v)}
          IN  /\ \A b \in 1..Len(bands) :
                    Total(b)' # Total(b) =>
                        /\ b \in holds
                        /\ \A m \in holds : b <= m
                        /\ Total(b)' = Total(b) + Ionospheric(rec.gflg)
              /\ Survives(rec) =>
                    \E b \in holds :
                        /\ \A m \in holds : b <= m
                        /\ Total(b)' = Total(b) + Ionospheric(rec.gflg)]_vars

\* C19 witness: tfreq = 10000 with the bands [8000, 10000] and
\* [10000, 12000] has been read: the two points are in the first band and
\* the second band, which holds 10000 as well, has none.
C19_Witness ==
    /\ pc = "hist" /\ err = "none" /\ i = 2
    /\ freq_bands = TE2E /\ data = E2EShared
    /\ Contains(bands[1], 10000) /\ Contains(bands[2], 10000)
    /\ Total(1) = 2 /\ Total(2) = 0

\* C20: a record changes a count only if its tfreq lies strictly between the
\* two ends of the boundary: a record whose tfreq equals boundary.low or
\* boundary.high changes nothing, also when a retained band holds that
\* value in its closed interval.
C20_BoundaryIsOpen ==
    [][ReadsRecord =>
          LET v == data[i].tfreq.v IN
          /\ (\E b \in 1..Len(bands) : Total(b)' # Total(b)) =>
                (data[i].tfreq.k = "num" /\ boundary.lo < v /\ v < boundary.hi)
          /\ (data[i].tfreq.k = "num" /\ (v = boundary.lo \/ v = boundary.hi)) =>
                (hist' = hist /\ hist2d' = hist2d /\ err' = "none")]_vars

\* C20 witness: with the default boundary (0, 6) of the bands [0, 2], [2, 4],
\* [4, 6], a channel-2 record with an ionospheric point transmitted at 6, the
\* high edge of the last band, has been read and no band has a count.
C20_Witness ==
    /\ pc = "hist" /\ err = "none" /\ i = 2
    /\ freq_bands = T3 /\ boundary = Bnd(0, 6)
    /\ data[1].channel = 2 /\ data[1].tfreq = Num(6)
    /\ Ionospheric(data[1].gflg) = 1
    /\ Contains(bands[3], 6)
    /\ \A b \in 1..Len(bands) : Total(b) = 0

\* C21: the ranked list is built from the raw counts, before normalization
\* and before outlier suppression: it is a ranking of the totals that the
\* two loops compute from the records, the bands, the boundary, the omitted
\* intervals and date_bin (normalize is not read), every Count is the raw
\* integer total of its band, and the sections that normalize, suppress
\* and draw leave the list as it is.
C21_RankedFromRawCounts ==
    /\ [](Ranked =>
            LET raw == Extraction(fn, data, date_bin, boundary, remove_bands,
                                  bands)
                tot == Totals(fn, raw.hist, raw.hist2d)
            IN  /\ \E p \in Argsorts(tot) :
                      ordered_bands = OrderedBands(p, tot, bands)
                /\ \A a \in 1..Len(ordered_bands) :
                      /\ ordered_bands[a].Count \in Nat
                      /\ ordered_bands[a].Count = Total(ordered_bands[a].Band + 1))
    /\ [][(pc \in {"normalize", "cmap", "plot"})
             => (ordered_bands' = ordered_bands)]_vars

\* C21 witness: a normalized 2D call has returned; the only cell of the
\* second band, 1/4 after normalization, is below the threshold and marked
\* 'no data', and the band is listed with its raw count 1 after the first
\* band with its raw count 3.
C21_Witness ==
    /\ fn = "2d" /\ normalize /\ pc = "done"
    /\ data = TwoColumns
    /\ col_den = <<4, 1>>
    /\ nodata[2][1]
    /\ ordered_bands[1].Count = 3 /\ ordered_bands[2].Count = 1

\* Remove Bands has run and raised nothing.
Resolved == pc \in {"dates", "hist", "rank", "normalize", "cmap", "plot", "done"}

\* The interval the band table gives the identifier id.
TableInterval(id) ==
    freq_bands.items[CHOOSE m \in 1..Len(freq_bands.items) :
                        IntOfStr(freq_bands.items[m].key) = id].value

\* C22: every omitted identifier is resolved to the interval the original
\* band table gives it, whether or not the boundary filter kept that band,
\* and a record whose tfreq lies in the closed interval of an omitted band
\* changes no count, a tfreq equal to an endpoint of the interval included.
C22_OmittedIntervalsClosed ==
    /\ []((Resolved /\ omit_bands.kind # "None") =>
            /\ Len(remove_bands) = Len(omit_bands.ids)
            /\ \A n \in 1..Len(remove_bands) :
                  remove_bands[n] = TableInterval(omit_bands.ids[n]))
    /\ [][(/\ ReadsRecord /\ data[i].tfreq.k = "num"
            /\ \E n \in 1..Len(omit_bands.ids) :
                  Contains(TableInterval(omit_bands.ids[n]), data[i].tfreq.v))
             => (hist' = hist /\ hist2d' = hist2d /\ err' = "none")]_vars

\* C22 witness: band '0' = [0, 2] is omitted and dropped by the boundary
\* (1, 6); a record transmitted at 2, the endpoint it shares with the
\* retained band [2, 4], has been read and no band has a count.
C22_Witness ==
    /\ pc = "hist" /\ err = "none" /\ i = 2
    /\ boundary = Bnd(1, 6) /\ omit_bands.ids = <<0>>
    /\ remove_bands = <<(<<0, 2>>)>>
    /\ \A b \in 1..Len(bands) : bands[b] # <<0, 2>>
    /\ \E b \in 1..Len(bands) : Contains(bands[b], 2)
    /\ data[1].channel = 2 /\ data[1].tfreq = Num(2)
    /\ Ionospheric(data[1].gflg) = 1
    /\ \A b \in 1..Len(bands) : Total(b) = 0

\* Gather Bands has run and raised nothing, on a table of numbers.
Gathered ==
    /\ pc \in {"remove", "dates", "hist", "rank", "normalize", "cmap", "plot",
                "done"}
    /\ WellFormed(freq_bands) /\ boundary.elt = "num"

\* The center of an interval lies strictly inside the boundary (doubled, to
\* stay in the integers).
CenterInside(item) ==
    /\ 2 * boundary.lo < item.value[1] + item.value[2]
    /\ item.value[1] + item.value[2] < 2 * boundary.hi

\* The interval lies inside the boundary, endpoints included.
IntervalInside(item) ==
    item.value[1] >= boundary.lo /\ item.value[2] <= boundary.hi

\* The values of a sequence of table items.
ValuesOf(items) == [n \in 1..Len(items) |-> items[n].value]

\* C23: in the 1D function the working band list holds exactly the bands of
\* the table whose center (low + high) / 2 lies strictly inside the
\* boundary, in table order: a band whose center equals boundary.low or
\* boundary.high is dropped.
C23_CenterStrictlyInside ==
    (fn = "1d" /\ Gathered) =>
        LET kept == SelectSeq(freq_bands.items, CenterInside) IN
        /\ bands = ValuesOf(kept)
        /\ keys = [n \in 1..Len(kept) |-> kept[n].key]

\* C23 witness: under the boundary (0, 4) the band [0, 4] with center 2 is
\* kept and the band [2, 6], whose center 4 is the high end, is dropped.
C23_Witness ==
    /\ fn = "1d" /\ pc = "done"
    /\ freq_bands = TOverlap /\ boundary = Bnd(0, 4)
    /\ bands = <<(<<0, 4>>)>>

\* C24: in the 2D function the working band list holds exactly the bands of
\* the table with low >= boundary.low and high <= boundary.high, in table
\* order: a band that reaches an endpoint is kept, a band that straddles one
\* is dropped, also when its center lies strictly inside the boundary.
C24_IntervalInsideInclusive ==
    (fn = "2d" /\ Gathered) =>
        LET kept == SelectSeq(freq_bands.items, IntervalInside) IN
        /\ bands = ValuesOf(kept)
        /\ keys = [n \in 1..Len(kept) |-> IntOfStr(kept[n].key)]

\* C24 witness: under the boundary (1, 6) the band [0, 4], whose center 2 is
\* inside, is dropped for starting below 1, and the band [2, 6], which
\* reaches the high end, is kept.
C24_Witness ==
    /\ fn = "2d" /\ pc = "done"
    /\ freq_bands = TOverlap /\ boundary = Bnd(1, 6)
    /\ CenterInside(freq_bands.items[1])
    /\ bands = <<(<<2, 6>>)>>

\* The fields of a record that key its time bucket, and the same fields of
\* a column's datetime.
BucketKey(rec) ==
    CASE date_bin = "year" -> <<rec.time_yr>>
      [] date_bin = "month" -> <<rec.time_mo>>
      [] date_bin = "day" -> <<rec.time_yr, rec.time_mo, rec.time_dy>>
      [] OTHER -> <<rec.time_hr>>
KeyOfDate(d) ==
    CASE date_bin = "year" -> <<d[1]>>
      [] date_bin = "month" -> <<d[2]>>
      [] date_bin = "day" -> <<d[1], d[2], d[3]>>
      [] OTHER -> <<d[4]>>

\* The first loop has run over all records.
DatesGathered ==
    fn = "2d" /\ pc \in {"hist", "rank", "normalize", "cmap", "plot", "done"}

\* The columns whose datetime has the bucket key of a record.
ColumnsOf(rec) ==
    {c \in 1..Len(dates) : KeyOfDate(dates[c]) = BucketKey(rec)}

\* C25: in the 2D function with date_bin 'year', 'month' or 'day', every
\* channel-2 record has exactly one column, the one whose key (year; month;
\* year, month and day) is that of the record, and a record changes cells of
\* that column only: two records share a column if and only if they agree
\* on the year ('year'), on the month whatever the year ('month'), or on
\* year, month and day ('day').
C25_BucketKeys ==
    /\ []((DatesGathered /\ date_bin \in {"year", "month", "day"}) =>
            \A n \in 1..Len(data) :
                data[n].channel = 2 => Cardinality(ColumnsOf(data[n])) = 1)
    /\ [][(ReadsRecord /\ fn = "2d" /\ date_bin \in {"year", "month", "day"})
             => (/\ \A r \in 1..Len(bands) : \A c \in 1..Len(dates) :
                       hist2d'[r][c] # hist2d[r][c] => c \in ColumnsOf(data[i])
                 /\ Survives(data[i]) =>
                       \E c \in ColumnsOf(data[i]) :
                           hist2d'[Owner(data[i])][c] =
                               hist2d[Owner(data[i])][c]
                                   + Ionospheric(data[i].gflg))]_vars

\* C25 witness: with date_bin = 'month', a record of January 2020 and a
\* record of January 2021 have been counted in the same, only column.
C25_Witness ==
    /\ fn = "2d" /\ date_bin = "month" /\ pc = "done"
    /\ Len(data) = 2
    /\ data[1].time_yr = 2020 /\ data[2].time_yr = 2021
    /\ data[1].time_mo = 1 /\ data[2].time_mo = 1
    /\ Survives(data[1]) /\ Survives(data[2])
    /\ Len(dates) = 1
    /\ SumSeq([r \in 1..Len(bands) |-> hist2d[r][1]]) =
          Ionospheric(data[1].gflg) + Ionospheric(data[2].gflg)
    /\ Ionospheric(data[1].gflg) > 0 /\ Ionospheric(data[2].gflg) > 0

\* The records that open or join a time bucket among the first k records:
\* the channel-2 records, under 'hour' those with an even hour.
Bucketed(k) ==
    {n \in 1..k : /\ data[n].channel = 2
                  /\ date_bin = "hour" => data[n].time_hr % 2 = 0}

\* The first of the first k records that has the bucket key.
FirstSeen(k, key) ==
    CHOOSE n \in Bucketed(k) :
        /\ BucketKey(data[n]) = key
        /\ \A m \in Bucketed(k) : BucketKey(data[m]) = key => n <= m

\* C26: in the 2D function the columns are the distinct time buckets of the
\* records scanned so far, one column per bucket, in the order in which the
\* buckets are first met from the front of the record list (not in
\* chronological order), and the matrix has one row per retained band, the
\* retained bands being in band-table order.
C26_ColumnsInScanOrder ==
    (/\ fn = "2d" /\ KnownDateBin(date_bin)
     /\ (pc = "dates" /\ i >= 1) \/ DatesGathered) =>
        LET k == IF pc = "dates" /\ err = "none" THEN i - 1
                 ELSE IF pc = "dates" THEN 0 ELSE Len(data)
            met == {BucketKey(data[n]) : n \in Bucketed(k)}
        IN  /\ (pc # "dates" \/ err = "none") =>
                  /\ Len(dates) = Cardinality(met)
                  /\ \A c \in 1..Len(dates) : KeyOfDate(dates[c]) \in met
                  /\ \A c, d \in 1..Len(dates) :
                        c < d => FirstSeen(k, KeyOfDate(dates[c]))
                                    < FirstSeen(k, KeyOfDate(dates[d]))
            /\ DatesGathered =>
                  /\ Len(hist2d) = Len(bands)
                  /\ \A r \in 1..Len(hist2d) : Len(hist2d[r]) = Len(dates)
                  /\ WellFormed(freq_bands) =>
                        bands = ValuesOf(SelectSeq(freq_bands.items, IntervalInside))

\* C26 witness: with date_bin = 'day', a record of 1 February 2020 followed
\* by a record of 1 January 2020 has given the columns in that order.
C26_Witness ==
    /\ fn = "2d" /\ date_bin = "day" /\ pc = "done"
    /\ Len(data) = 2
    /\ dates = <<(<<2020, 2, 1, 0>>), (<<2020, 1, 1, 0>>)>>
    /\ Len(hist2d) = 3 /\ Len(hist2d[1]) = 2

\* A channel-2 record with a per-record anomaly: no gflg, a tfreq that is
\* NaN or infinite, or a tfreq that no retained band holds.
Anomalous(rec) ==
    /\ rec.channel = 2
    /\ \/ ~rec.has_gflg
       \/ rec.tfreq.k # "num"
       \/ \A b \in 1..Len(bands) : ~Contains(bands[b], rec.tfreq.v)
NotAnomalous(rec) == ~Anomalous(rec)

AnomaliesInert ==
    LET others == SelectSeq(data, NotAnomalous)
        alone == Extraction(fn, others, date_bin, boundary, remove_bands, bands)
    IN  /\ (pc \in {"dates", "hist"} /\ err # "none") => alone.err # "none"
        /\ Counted =>
              /\ alone.err = "none"
              /\ \A b \in 1..Len(bands) :
                    Total(b) = Totals(fn, alone.hist, alone.hist2d)[b]

\* C27 (as claimed): under a date_bin the function knows, a channel-2 record
\* without gflg, with a NaN or infinite tfreq or with a tfreq in no retained
\* band never aborts the call and credits nothing, and the other records are
\* processed as if it were absent: a record loop raises only if it raises on
\* the list without the anomalous records, and the band totals are those of
\* that list.
C27_AnomaliesInert ==
    (fn = "1d" \/ KnownDateBin(date_bin)) => AnomaliesInert

\* What does hold: in the 1D function and under 'year', 'month' and 'day'
\* the anomalous records are inert.
C27_InertOutsideHour ==
    (fn = "1d" \/ date_bin \in {"year", "month", "day"}) => AnomaliesInert

\* An anomalous record and a counted one in the same call outside 'hour'.
C27_InertReached ==
    /\ Counted /\ date_bin = "day" /\ Len(data) = 2 /\ Len(bands) > 0
    /\ Anomalous(data[1]) /\ ~Anomalous(data[2]) /\ data[2].channel = 2
    /\ \E b \in 1..Len(bands) : Total(b) > 0

\* The states after Color Map has run.
ColorMapped ==
    fn = "2d" /\ (pc \in {"plot", "done"} \/ (pc = "cmap" /\ err # "none"))

\* The cells of the matrix, and the strictly positive ones. The value of
\* cell p is hist2d[p[1]][p[2]] / col_den[p[2]].
Cells == (1..Len(hist2d)) \X (1..Len(dates))
PositiveCells == {p \in Cells : hist2d[p[1]][p[2]] > 0}
ValueLess(p, q) ==
    hist2d[p[1]][p[2]] * col_den[q[2]] < hist2d[q[1]][q[2]] * col_den[p[2]]
Smallest(S) == CHOOSE p \in S : \A q \in S : ~ValueLess(q, p)

\* value(x) < value(a) + (g / 1000) * (value(b) - value(a))
BelowInterpolated(x, a, b, g) ==
    hist2d[x[1]][x[2]] * 1000 * col_den[a[2]] * col_den[b[2]]
        < col_den[x[2]] * (1000 * hist2d[a[1]][a[2]] * col_den[b[2]]
                           + g * (hist2d[b[1]][b[2]] * col_den[a[2]]
                                  - hist2d[a[1]][a[2]] * col_den[b[2]]))

\* C28: after Color Map of the 2D function, when the (possibly normalized)
\* matrix has a strictly positive cell, exactly the cells below the 0.5th
\* percentile of the strictly positive cells are 'no data' and the others are
\* unchanged; with n < 202 positive cells the percentile lies 0.005 * (n - 1)
\* of the way from the smallest to the second smallest positive value, so
\* the 'no data' cells are the zero cells and, when it is unique among two
\* or more, the smallest positive cell. When no cell is positive, every
\* zero cell is 'no data'.
C28_OutliersSuppressed ==
    ColorMapped =>
        /\ Len(nodata) = Len(hist2d)
        /\ \A r \in 1..Len(nodata) : Len(nodata[r]) = Len(dates)
        /\ IF PositiveCells = {}
           THEN \A x \in Cells : nodata[x[1]][x[2]] = (hist2d[x[1]][x[2]] = 0)
           ELSE LET n == Cardinality(PositiveCells)
                    m1 == Smallest(PositiveCells)
                    m2 == IF n = 1 THEN m1 ELSE Smallest(PositiveCells \ {m1})
                IN  n < 202 =>
                      \A x \in Cells :
                        /\ nodata[x[1]][x[2]]
                              = BelowInterpolated(x, m1, m2, 5 * (n - 1))
                        /\ nodata[x[1]][x[2]]
                              = (\/ hist2d[x[1]][x[2]] = 0
                                 \/ /\ n >= 2
                                    /\ \A q \in PositiveCells \ {x} :
                                          ValueLess(x, q))

\* A normalized column [3/4, 1/4] beside an all-zero column: the threshold is
\* 1/4 + 0.005 * (3/4 - 1/4), so 1/4 and the zeros are 'no data' and 3/4 is
\* kept.
C28_Witness ==
    /\ ColorMapped /\ pc = "done" /\ normalize
    /\ Len(hist2d) = 2 /\ Len(dates) = 2
    /\ hist2d[1] = <<3, 0>> /\ hist2d[2] = <<1, 0>> /\ col_den = <<4, 1>>
    /\ nodata[1] = <<FALSE, TRUE>> /\ nodata[2] = <<TRUE, TRUE>>

\* A matrix without a positive cell: all its cells are 'no data'.
C28_AllZeroReached ==
    /\ ColorMapped /\ pc = "done" /\ Cells # {} /\ PositiveCells = {}
    /\ \A x \in Cells : nodata[x[1]][x[2]]

\* Band b of the working list is one of the omitted intervals.
OmittedInList(b) == \E n \in 1..Len(remove_bands) : remove_bands[n] = bands[b]

LengthMismatch(rec) ==
    rec.has_param /\ rec.has_gflg /\ Len(rec.param) # Len(rec.gflg)

\* C30 (as claimed): a call of plot_vector_hist with groundscatter = True on
\* a list where some record has the parameter and gflg with different
\* lengths ends in Check Ground Scatter with a KeyError: control never
\* reaches a later section, no value is gathered and nothing is drawn.
C30_LengthMismatchRaises ==
    (/\ fn = "vector" /\ groundscatter
     /\ \E n \in 1..Len(data) : LengthMismatch(data[n])) =>
        /\ pc \in {"parameter", "groundscatter"}
        /\ err # "none" => (pc = "groundscatter" /\ err = "KeyError")
        /\ vals = <<>> /\ vals_gs = <<>> /\ ~rendered

\* What happens instead: the call goes on; a gflg shorter than the parameter
\* ends Gather Data with an IndexError, a longer one is drawn.
C30_IndexErrorReached ==
    /\ fn = "vector" /\ groundscatter /\ pc = "gather" /\ err = "IndexError"
    /\ \E n \in 1..Len(data) : LengthMismatch(data[n])
C30_DrawnReached ==
    /\ fn = "vector" /\ groundscatter /\ pc = "done" /\ rendered
    /\ \E n \in 1..Len(data) : LengthMismatch(data[n])

====
